---------------------------- MODULE Spec2Model ----------------------------
(***************************************************************************)
(* The real-time transcript pipeline of NoteFlux:                          *)
(*   GrokService                    (src/lib/services/realtime-transcript- *)
(*                                   manager.ts 233-418, also part_004)    *)
(*   IntelligentTranscriptProcessor (src/lib/services/intelligent-         *)
(*                                   transcript-processor.ts)              *)
(*   RealtimeTranscriptManager      (src/lib/services/realtime-transcript- *)
(*                                   manager.ts 18-222)                    *)
(*                                                                         *)
(* Text is a sequence of one-character strings.  Chunk objects live in a   *)
(* heap (obj), indexed by the chunk's identity; the processor's array      *)
(* this.chunks is a sequence of heap references, so that a record removed  *)
(* from the array by clear() is still the record a suspended processChunk  *)
(* holds.  Every await on the network is a suspension point: the part of a *)
(* handler before it and the part after it are separate actions.           *)
(***************************************************************************)
EXTENDS Integers, Sequences, FiniteSets, TLC

(***************************************************************************)
(* Bounds of the model.                                                    *)
(***************************************************************************)
\* chunk objects ever created (ids are never reused)
MaxChunks == 2
\* texts in one processBatch call
MaxBatch == 2
\* reprocessAll calls
MaxReprocess == 1

(***************************************************************************)
(* Text                                                                    *)
(***************************************************************************)
\* undefined, for an optional text that is not set: a value that is no text
\* (every text is a sequence of one-character strings)
Undefined == <<"undefined">>

IsSpace(c) == c = " "

\* String.prototype.toLowerCase, one character
LowerChar(c) ==
  CASE c = "B" -> "b"
    [] c = "G" -> "g"
    [] c = "P" -> "p"
    [] c = "U" -> "u"
    [] OTHER -> c

toLowerCase(s) == [i \in 1..Len(s) |-> LowerChar(s[i])]

RECURSIVE TrimStart(_)
TrimStart(s) ==
  IF s = <<>> THEN <<>>
  ELSE IF IsSpace(Head(s)) THEN TrimStart(Tail(s)) ELSE s

RECURSIVE TrimEnd(_)
TrimEnd(s) ==
  IF s = <<>> THEN <<>>
  ELSE IF IsSpace(s[Len(s)]) THEN TrimEnd(SubSeq(s, 1, Len(s) - 1)) ELSE s

\* String.prototype.trim
trim(s) == TrimEnd(TrimStart(s))

\* Array.prototype.join(' ') over a sequence of texts
RECURSIVE join(_)
join(ts) ==
  IF ts = <<>> THEN <<>>
  ELSE IF Len(ts) = 1 THEN ts[1]
  ELSE ts[1] \o <<" ">> \o join(Tail(ts))

\* the first position from `from` on whose character is (or is not) a space;
\* 0 when there is none
FirstAt(s, from, space) ==
  IF \E i \in from..Len(s) : IsSpace(s[i]) = space
  THEN CHOOSE i \in from..Len(s) :
         /\ IsSpace(s[i]) = space
         /\ \A j \in from..(i - 1) : IsSpace(s[j]) # space
  ELSE 0

\* String.prototype.split(/\s+/): the pieces between maximal runs of
\* whitespace; a leading or trailing run leaves an empty piece, and the
\* empty string splits into one empty piece.  SplitFrom gives the pieces of
\* s from position `from` on.
RECURSIVE SplitFrom(_, _)
SplitFrom(s, from) ==
  LET sep == FirstAt(s, from, TRUE)
  IN  IF sep = 0 THEN << SubSeq(s, from, Len(s)) >>
      ELSE LET next == FirstAt(s, sep, FALSE)
           IN  << SubSeq(s, from, sep - 1) >>
                 \o (IF next = 0 THEN << <<>> >> ELSE SplitFrom(s, next))

split(s) == SplitFrom(s, 1)

\* JavaScript truthiness of an optional string: set and not empty
Truthy(v) == v # Undefined /\ v # <<>>

(***************************************************************************)
(* Numbers: a confidence is a fraction in lowest terms.                    *)
(***************************************************************************)
RECURSIVE GCD(_, _)
GCD(a, b) == IF b = 0 THEN a ELSE GCD(b, a % b)

Frac(n, d) == LET g == GCD(n, d) IN [num |-> n \div g, den |-> d \div g]

\* undefined, for an optional number that is not set
UndefinedNumber == [num |-> 0, den |-> 0]

Zero == Frac(0, 1)
One == Frac(1, 1)
\* the floor 0.3 of the confidence heuristic
Floor03 == Frac(3, 10)

FracLeq(x, y) == x.num * y.den <= y.num * x.den

\* Math.max
FracMax(x, y) == IF FracLeq(x, y) THEN y ELSE x


(***************************************************************************)
(* Inputs                                                                  *)
(***************************************************************************)
\* "ok go home": 10 characters
TenChars == <<"o", "k", " ", "g", "o", " ", "h", "o", "m", "e">>
\* "buy 500 gpu": 11 characters
ElevenChars == <<"b", "u", "y", " ", "5", "0", "0", " ", "g", "p", "u">>

\* the texts the Speech Source offers: empty, blank, a padded text whose
\* trimmed form has exactly 10 characters, and one of 11 characters
Texts == { <<>>, <<" ", " ">>, <<" ">> \o TenChars \o <<" ">>, ElevenChars }

\* process.env.NEXT_PUBLIC_GROK_API_KEY || ... || ''
NoKey == ""
ApiKeys == { NoKey, "xai-key" }

\* What the network gives back for one fetch: the fetch rejects, or answers
\* with a status, a body that parses or not, and the parsed
\* choices[0].message.content (Undefined when any link of the chain is
\* missing).
Response(net, ok, parses, content) ==
  [net |-> net, ok |-> ok, parses |-> parses, content |-> content]

NetworkFailure == Response("failed", FALSE, FALSE, Undefined)
Non2xx == Response("answered", FALSE, FALSE, Undefined)
Unparsable == Response("answered", TRUE, FALSE, Undefined)
NoContent == Response("answered", TRUE, TRUE, Undefined)
BlankContent == Response("answered", TRUE, TRUE, <<" ">>)
\* " Buy 100 GPU "
Rewritten ==
  Response("answered", TRUE, TRUE,
           <<" ", "B", "u", "y", " ", "1", "0", "0", " ", "G", "P", "U", " ">>)

Responses ==
  { NetworkFailure, Non2xx, Unparsable, NoContent, BlankContent, Rewritten }

\* no fetch was made, so there is no response to read
NoResponse == Response("none", FALSE, FALSE, Undefined)

(***************************************************************************)
(* GrokService                                                             *)
(***************************************************************************)
\* how a promise settles
Fulfilled(v) == [settled |-> "fulfilled", value |-> v]
Rejected == [settled |-> "rejected", value |-> "error"]

\* the number of words of ws that occur in vs (Array.filter + includes)
CountIncluded(ws, vs) ==
  Cardinality({ i \in 1..Len(ws) : \E j \in 1..Len(vs) : vs[j] = ws[i] })

Max(a, b) == IF a >= b THEN a ELSE b

\* calculateConfidence without its floor of 0.3
calculateConfidence_noFloor(original, corrected) ==
  IF original = corrected THEN One
  ELSE LET originalWords == split(toLowerCase(original))
           correctedWords == split(toLowerCase(corrected))
           maxLength == Max(Len(originalWords), Len(correctedWords))
           commonWords == CountIncluded(originalWords, correctedWords)
       IN  Frac(commonWords, maxLength)

calculateConfidence(original, corrected) ==
  IF original = corrected THEN One
  ELSE LET originalWords == split(toLowerCase(original))
           correctedWords == split(toLowerCase(corrected))
           maxLength == Max(Len(originalWords), Len(correctedWords))
           commonWords == CountIncluded(originalWords, correctedWords)
       IN  FracMax(Floor03, Frac(commonWords, maxLength))

\* detectChanges that reports every difference, of letter case too
detectChanges_anyDifference(original, corrected) ==
  IF original = corrected THEN <<>>
  ELSE << [original |-> original, corrected |-> corrected,
           type |-> "correction"] >>

detectChanges(original, corrected) ==
  IF original = corrected THEN <<>>
  ELSE IF toLowerCase(original) # toLowerCase(corrected)
       THEN << [original |-> original, corrected |-> corrected,
                type |-> "correction"] >>
       ELSE <<>>

\* the degraded result
Fallback(text) == [correctedText |-> text, confidence |-> Zero, changes |-> <<>>]

\* The try block of correctTranscript, from the fetch on: it throws (the
\* fetch rejects, the status is not ok, the body does not parse) or returns
\* the result built from the parsed content.
Thrown == [threw |-> TRUE, value |-> Undefined]
Returned(v) == [threw |-> FALSE, value |-> v]

FetchAndParse(text, response) ==
  IF response.net # "answered" THEN Thrown
  ELSE IF ~response.ok THEN Thrown
  ELSE IF ~response.parses THEN Thrown
  ELSE LET content == IF response.content = Undefined THEN Undefined
                      ELSE trim(response.content)
           correctedText == IF Truthy(content) THEN content ELSE text
       IN  Returned([correctedText |-> correctedText,
                     confidence |-> calculateConfidence(text, correctedText),
                     changes |-> detectChanges(text, correctedText)])

\* a GrokService that goes to the network whatever its credential
FetchesWithKey_always(key) == TRUE

\* if (!this.apiKey) return ...: whether correctTranscript and isAvailable
\* get as far as their fetch
FetchesWithKey(key) == key # NoKey

\* correctTranscript with a catch block that rethrows
correctTranscript_rethrows(key, text, response) ==
  IF ~FetchesWithKey(key) THEN Fulfilled(Fallback(text))
  ELSE LET body == FetchAndParse(text, response)
       IN  IF body.threw THEN Rejected ELSE Fulfilled(body.value)

\* how the promise of correctTranscript(text, context) settles, given the
\* credential and what the network gives back
correctTranscript(key, text, response) ==
  IF ~FetchesWithKey(key) THEN Fulfilled(Fallback(text))
  ELSE LET body == FetchAndParse(text, response)
       IN  IF body.threw THEN Fulfilled(Fallback(text))
           ELSE Fulfilled(body.value)

\* how the promise of isAvailable() settles
isAvailable(key, response) ==
  IF ~FetchesWithKey(key) THEN Fulfilled(FALSE)
  ELSE IF response.net # "answered" THEN Fulfilled(FALSE)
  ELSE Fulfilled(response.ok)

\* the texts correctTranscript is called with: chunk texts, which are
\* trimmed and not empty ("buy 500 gpu", "buy  500 gpu", "buy buy gpu",
\* "gpu", "Buy 500 GPU", "ok go home")
ServiceTexts ==
  { ElevenChars,
    <<"b", "u", "y", " ", " ", "5", "0", "0", " ", "g", "p", "u">>,
    <<"b", "u", "y", " ", "b", "u", "y", " ", "g", "p", "u">>,
    <<"g", "p", "u">>,
    <<"B", "u", "y", " ", "5", "0", "0", " ", "G", "P", "U">>,
    TenChars }

\* what choices[0].message.content may hold: one of the texts, one of them
\* padded, a shorter, a longer and an unrelated text
ServiceContents ==
  ServiceTexts
    \cup { <<" ">> \o t \o <<" ">> : t \in ServiceTexts }
    \cup { <<"b", "u", "y", " ", "g", "p", "u">>,
           <<"b", "u", "y", " ", "5", "0", "0", " ", "g", "p", "u", " ", "g", "o">>,
           <<"G", "p", "u">>,
           <<"u", "p">> }

ServiceResponses ==
  Responses \cup { Response("answered", TRUE, TRUE, c) : c \in ServiceContents }

\* no call of correctTranscript was made on its own
NoCorrection ==
  [ text |-> <<>>, response |-> NoResponse,
    outcome |-> [settled |-> "none", value |-> "none"] ]

(***************************************************************************)
(* State                                                                   *)
(***************************************************************************)
VARIABLES
  apiKey,          \* GrokService.apiKey
  isEnabled,       \* RealtimeTranscriptManager.isEnabled
  chunks,          \* IntelligentTranscriptProcessor.chunks: references into obj
  obj,             \* the chunk objects ever created, by identity
  inflight,        \* correction requests awaiting their completion, oldest first
  debounceTimer,   \* RealtimeTranscriptManager.debounceTimer: the timer set last
  staleTimers,     \* timers still scheduled that debounceTimer no longer refers to
  coalesced,       \* debouncedUpdate calls the timer set last stands for
  updateCallbacks, \* RealtimeTranscriptManager.updateCallbacks
  batchWaiting,    \* a processBatch call is suspended at its await
  batchChunkIds,        \* the batchChunkIds of that call: what its addChunk calls returned
  reproc,          \* the reprocessAll call in progress, if any
  reprocessCalls,  \* reprocessAll calls made so far
  probe,           \* the isServiceAvailable call in progress, if any
  available,       \* how the last isServiceAvailable call settled
  notified,        \* the states handed to notifyUpdate's subscribers by the last step
  calls,           \* the subscriber calls of the last step, in order
  failed,          \* an exception left the call or handler of the last step
  issued,          \* per chunk object: Oracle requests issued for it so far
  lastCompleted,   \* the chunk object whose correction completed last (0: none)
  correction,      \* the last call of GrokService.correctTranscript made on its own
  last             \* the call or event of the last step

rtmVars ==
  << apiKey, isEnabled, chunks, obj, inflight, debounceTimer, staleTimers,
     coalesced, updateCallbacks, batchWaiting, reproc, reprocessCalls, probe,
     available, notified, calls, failed, issued, lastCompleted, correction,
     batchChunkIds, last >>


\* for (sum, score) => sum + score over fractions
FracAdd(x, y) == Frac(x.num * y.den + y.num * x.den, x.den * y.den)

RECURSIVE FracSum(_)
FracSum(fs) == IF fs = <<>> THEN Zero ELSE FracAdd(Head(fs), FracSum(Tail(fs)))

\* this.chunks as the records it refers to
Records(cs, o) == [i \in 1..Len(cs) |-> o[cs[i]]]

TextsOf(recs) == [i \in 1..Len(recs) |-> recs[i].text]

\* Array.prototype.findIndex(c => c.id === chunkId), 1-based; 0 when absent
findIndex(cs, chunkId) ==
  IF \E i \in 1..Len(cs) : cs[i] = chunkId
  THEN CHOOSE i \in 1..Len(cs) : cs[i] = chunkId
  ELSE 0

getRawTranscript(cs, o) == trim(join(TextsOf(Records(cs, o))))

\* getProcessedTranscript without its filter on isProcessing
getProcessedTranscript_keepsProcessing(cs, o) ==
  LET processedChunks == Records(cs, o)
      withCorrected == SelectSeq(processedChunks, LAMBDA c : Truthy(c.corrected))
  IN  IF Len(processedChunks) = 0 THEN <<>>
      ELSE IF Len(withCorrected) > 0
           THEN withCorrected[Len(withCorrected)].corrected
           ELSE trim(join(TextsOf(processedChunks)))

\* getProcessedTranscript that joins the corrected texts of all chunks
getProcessedTranscript_joinsAll(cs, o) ==
  LET recs == Records(cs, o)
  IN  trim(join([i \in 1..Len(recs) |->
                   IF Truthy(recs[i].corrected) THEN recs[i].corrected
                   ELSE recs[i].text]))

getProcessedTranscript(cs, o) ==
  LET processedChunks ==
        SelectSeq(Records(cs, o),
                  LAMBDA c : Truthy(c.corrected) \/ ~c.isProcessing)
      withCorrected == SelectSeq(processedChunks, LAMBDA c : Truthy(c.corrected))
  IN  IF Len(processedChunks) = 0 THEN <<>>
      ELSE IF Len(withCorrected) > 0
           THEN withCorrected[Len(withCorrected)].corrected
           ELSE trim(join(TextsOf(processedChunks)))

getStats(cs, o) ==
  LET recs == Records(cs, o)
      confidenceScores ==
        SelectSeq([i \in 1..Len(recs) |-> recs[i].confidence],
                  LAMBDA x : x # UndefinedNumber)
      total == FracSum(confidenceScores)
  IN  [ totalChunks |-> Len(recs),
        processedChunks |->
          Cardinality({ i \in 1..Len(recs) : Truthy(recs[i].corrected) }),
        processingChunks |->
          Cardinality({ i \in 1..Len(recs) : recs[i].isProcessing }),
        averageConfidence |->
          IF Len(confidenceScores) > 0
          THEN Frac(total.num, total.den * Len(confidenceScores))
          ELSE Zero ]

hasProcessingChunks(cs, o) == \E i \in 1..Len(cs) : o[cs[i]].isProcessing

\* RealtimeTranscriptManager.getState (the chunk list itself is cs, o)
getState(cs, o) ==
  [ rawTranscript |-> getRawTranscript(cs, o),
    processedTranscript |-> getProcessedTranscript(cs, o),
    isProcessing |-> hasProcessingChunks(cs, o),
    stats |-> getStats(cs, o) ]

(***************************************************************************)
(* The synchronous parts of the processor's methods, as functions of the   *)
(* processor's state p = [chunks, obj, inflight, notified, calls, failed,  *)
(* issued, fetches]: fetches counts the network requests made in the step. *)
(***************************************************************************)
Proc ==
  [ chunks |-> chunks, obj |-> obj, inflight |-> inflight, notified |-> <<>>,
    calls |-> <<>>, failed |-> FALSE, issued |-> issued, fetches |-> 0 ]

\* the subscriber functions: one that returns and one that throws
Callbacks == { "render", "faulty" }

Throws(callback) == callback = "faulty"

\* updateCallbacks.forEach(callback => callback(state)) for notification n
Deliver(callbacks, n, state) ==
  [i \in 1..Len(callbacks) |->
     [callback |-> callbacks[i], notification |-> n, state |-> state]]

\* the position of the first callback that throws; 0 when none does
FirstThrow(callbacks) ==
  IF \E i \in 1..Len(callbacks) : Throws(callbacks[i])
  THEN CHOOSE i \in 1..Len(callbacks) :
         Throws(callbacks[i]) /\ \A j \in 1..(i - 1) : ~Throws(callbacks[j])
  ELSE 0

\* notifyUpdate without the try/catch around each callback: the first throw
\* ends the forEach and leaves the notifying call
notifyUpdate_unguarded(p) ==
  LET state == getState(p.chunks, p.obj)
      n == Len(p.notified) + 1
      stop == FirstThrow(updateCallbacks)
      reached == IF stop = 0 THEN updateCallbacks
                 ELSE SubSeq(updateCallbacks, 1, stop)
  IN  [p EXCEPT !.notified = Append(@, state),
                !.calls = @ \o Deliver(reached, n, state),
                !.failed = @ \/ stop # 0]

\* processor.notifyUpdate -> the manager's callback -> manager.notifyUpdate:
\* every subscriber is called with the one state; a throw is caught and logged
notifyUpdate(p) ==
  LET state == getState(p.chunks, p.obj)
      n == Len(p.notified) + 1
  IN  [p EXCEPT !.notified = Append(@, state),
                !.calls = @ \o Deliver(updateCallbacks, n, state)]

\* Array.prototype.slice(-n)
SliceLast(seq, n) ==
  IF Len(seq) <= n THEN seq ELSE SubSeq(seq, Len(seq) - n + 1, Len(seq))

\* private contextWindow = 3
ContextWindow == 3

\* getFullContextForChunk over the last contextWindow chunks only
getFullContextForChunk_window(p, chunkIndex) ==
  IF chunkIndex = 1 THEN <<>>
  ELSE LET previousChunks ==
             SliceLast(SubSeq(Records(p.chunks, p.obj), 1, chunkIndex - 1),
                       ContextWindow)
           fullPreviousText ==
             trim(join([i \in 1..Len(previousChunks) |->
                          IF Truthy(previousChunks[i].corrected)
                          THEN previousChunks[i].corrected
                          ELSE previousChunks[i].text]))
       IN  IF Truthy(fullPreviousText) THEN <<fullPreviousText>> ELSE <<>>

getFullContextForChunk(p, chunkIndex) ==
  IF chunkIndex = 1 THEN <<>>
  ELSE LET previousChunks == SubSeq(Records(p.chunks, p.obj), 1, chunkIndex - 1)
           fullPreviousText ==
             trim(join([i \in 1..Len(previousChunks) |->
                          IF Truthy(previousChunks[i].corrected)
                          THEN previousChunks[i].corrected
                          ELSE previousChunks[i].text]))
       IN  IF Truthy(fullPreviousText) THEN <<fullPreviousText>> ELSE <<>>

\* processChunk from "Mark as processing" to its await: the request is made
StartRequest(p, chunkId, chunkIndex, waiter) ==
  LET p1 == [p EXCEPT !.obj[chunkId].isProcessing = TRUE]
      p2 == notifyUpdate(p1)
      request == [ chunk |-> chunkId,
                   text |-> p2.obj[chunkId].text,
                   context |-> getFullContextForChunk(p2, chunkIndex),
                   fetched |-> FetchesWithKey(apiKey),
                   waiter |-> waiter ]
  IN  [p2 EXCEPT !.inflight = Append(@, request),
                 !.issued[chunkId] = @ + 1,
                 !.fetches = @ + (IF request.fetched THEN 1 ELSE 0)]

\* processChunk without its guard on isProcessing and corrected
processChunk_unguarded(p, chunkId, waiter) ==
  LET chunkIndex == findIndex(p.chunks, chunkId)
  IN  IF chunkIndex = 0 THEN p
      ELSE StartRequest(p, chunkId, chunkIndex, waiter)

\* processChunk up to its await; waiter names who awaits the returned promise
processChunk(p, chunkId, waiter) ==
  LET chunkIndex == findIndex(p.chunks, chunkId)
  IN  IF chunkIndex = 0 THEN p
      ELSE IF p.obj[chunkId].isProcessing \/ Truthy(p.obj[chunkId].corrected)
           THEN p
           ELSE StartRequest(p, chunkId, chunkIndex, waiter)

\* if (isFinal || chunk.text.length > 10)
SignificantLength == 10

\* addChunk with >= for > in its test of the length
addChunk_atLeast(p, text, isFinal) ==
  LET chunkId == Len(p.obj) + 1
      chunk == [ text |-> trim(text), isFinal |-> isFinal,
                 corrected |-> Undefined, confidence |-> UndefinedNumber,
                 isProcessing |-> FALSE ]
  IN  IF Truthy(chunk.text)
      THEN LET p1 == [p EXCEPT !.chunks = Append(@, chunkId),
                               !.obj = Append(@, chunk),
                               !.issued = Append(@, 0)]
           IN  IF isFinal \/ Len(chunk.text) >= SignificantLength
               THEN processChunk(p1, chunkId, "none")
               ELSE p1
      ELSE p

\* IntelligentTranscriptProcessor.addChunk; the new chunk's identity is the
\* next free one
addChunk(p, text, isFinal) ==
  LET chunkId == Len(p.obj) + 1
      chunk == [ text |-> trim(text), isFinal |-> isFinal,
                 corrected |-> Undefined, confidence |-> UndefinedNumber,
                 isProcessing |-> FALSE ]
  IN  IF Truthy(chunk.text)
      THEN LET p1 == [p EXCEPT !.chunks = Append(@, chunkId),
                               !.obj = Append(@, chunk),
                               !.issued = Append(@, 0)]
           IN  IF isFinal \/ Len(chunk.text) > SignificantLength
               THEN processChunk(p1, chunkId, "none")
               ELSE p1
      ELSE p

\* the identity addChunk returns: of the chunk it made, or of no chunk (0)
addChunkId(p, text) == IF Truthy(trim(text)) THEN Len(p.obj) + 1 ELSE 0

\* processBatch, "Add all chunks": returns the state and the chunkIds
RECURSIVE AddAll(_, _, _, _)
AddAll(p, texts, index, chunkIds) ==
  IF index > Len(texts) THEN [p |-> p, chunkIds |-> chunkIds]
  ELSE AddAll(addChunk(p, texts[index], index = Len(texts)), texts, index + 1,
              Append(chunkIds, addChunkId(p, texts[index])))

\* processBatch, "Process all chunks": chunkIds.map(processChunk)
RECURSIVE ProcessAll(_, _)
ProcessAll(p, chunkIds) ==
  IF chunkIds = <<>> THEN p
  ELSE ProcessAll(processChunk(p, Head(chunkIds), "batch"), Tail(chunkIds))

\* IntelligentTranscriptProcessor.processBatch up to its await
processBatch(p, texts) ==
  LET added == AddAll(p, texts, 1, <<>>)
  IN  ProcessAll(added.p, added.chunkIds)

\* clear without its notifyUpdate
clear_silent(p) == [p EXCEPT !.chunks = <<>>]

\* IntelligentTranscriptProcessor.clear
clear(p) == notifyUpdate([p EXCEPT !.chunks = <<>>])

\* processChunk after its await, storing the correction over the raw text
resumeProcessChunk_rewritesText(p, chunkId, outcome) ==
  IF outcome.settled = "fulfilled"
  THEN notifyUpdate([p EXCEPT
         !.obj[chunkId].text = outcome.value.correctedText,
         !.obj[chunkId].corrected = outcome.value.correctedText,
         !.obj[chunkId].confidence = outcome.value.confidence,
         !.obj[chunkId].isProcessing = FALSE])
  ELSE notifyUpdate([p EXCEPT
         !.obj[chunkId].isProcessing = FALSE,
         !.obj[chunkId].corrected = p.obj[chunkId].text,
         !.obj[chunkId].confidence = Zero])

\* processChunk after its await, with a catch block that only clears the flag
resumeProcessChunk_noFallback(p, chunkId, outcome) ==
  IF outcome.settled = "fulfilled"
  THEN notifyUpdate([p EXCEPT
         !.obj[chunkId].corrected = outcome.value.correctedText,
         !.obj[chunkId].confidence = outcome.value.confidence,
         !.obj[chunkId].isProcessing = FALSE])
  ELSE notifyUpdate([p EXCEPT !.obj[chunkId].isProcessing = FALSE])

\* processChunk after its await, putting a chunk that left the store back
resumeProcessChunk_resurrects(p, chunkId, outcome) ==
  LET q == IF findIndex(p.chunks, chunkId) = 0
           THEN [p EXCEPT !.chunks = Append(@, chunkId)]
           ELSE p
  IN  notifyUpdate([q EXCEPT
         !.obj[chunkId].corrected =
            IF outcome.settled = "fulfilled" THEN outcome.value.correctedText
            ELSE q.obj[chunkId].text,
         !.obj[chunkId].confidence =
            IF outcome.settled = "fulfilled" THEN outcome.value.confidence
            ELSE Zero,
         !.obj[chunkId].isProcessing = FALSE])

\* processChunk after its await, bringing the context of the requests still
\* in flight up to date with the correction
resumeProcessChunk_refreshesContext(p, chunkId, outcome) ==
  LET q == IF outcome.settled = "fulfilled"
           THEN [p EXCEPT
                  !.obj[chunkId].corrected = outcome.value.correctedText,
                  !.obj[chunkId].confidence = outcome.value.confidence,
                  !.obj[chunkId].isProcessing = FALSE]
           ELSE [p EXCEPT
                  !.obj[chunkId].isProcessing = FALSE,
                  !.obj[chunkId].corrected = p.obj[chunkId].text,
                  !.obj[chunkId].confidence = Zero]
  IN  notifyUpdate([q EXCEPT !.inflight =
        [i \in 1..Len(q.inflight) |->
           IF findIndex(q.chunks, q.inflight[i].chunk) = 0 THEN q.inflight[i]
           ELSE [q.inflight[i] EXCEPT !.context =
                   getFullContextForChunk(
                     q, findIndex(q.chunks, q.inflight[i].chunk))]]])

\* processChunk after its await, leaving isProcessing as it is
resumeProcessChunk_leavesFlag(p, chunkId, outcome) ==
  IF outcome.settled = "fulfilled"
  THEN notifyUpdate([p EXCEPT
         !.obj[chunkId].corrected = outcome.value.correctedText,
         !.obj[chunkId].confidence = outcome.value.confidence])
  ELSE notifyUpdate([p EXCEPT
         !.obj[chunkId].corrected = p.obj[chunkId].text,
         !.obj[chunkId].confidence = Zero])

\* processChunk after its await: the chunk record the call holds is written,
\* whether or not this.chunks still refers to it
resumeProcessChunk(p, chunkId, outcome) ==
  IF outcome.settled = "fulfilled"
  THEN notifyUpdate([p EXCEPT
         !.obj[chunkId].corrected = outcome.value.correctedText,
         !.obj[chunkId].confidence = outcome.value.confidence,
         !.obj[chunkId].isProcessing = FALSE])
  ELSE notifyUpdate([p EXCEPT
         !.obj[chunkId].isProcessing = FALSE,
         !.obj[chunkId].corrected = p.obj[chunkId].text,
         !.obj[chunkId].confidence = Zero])

\* reprocessAll, "Reset all corrections"
resetAll(p) ==
  [p EXCEPT !.obj = [id \in 1..Len(p.obj) |->
     IF findIndex(p.chunks, id) # 0
     THEN [p.obj[id] EXCEPT !.corrected = Undefined,
                            !.confidence = UndefinedNumber,
                            !.isProcessing = FALSE]
     ELSE p.obj[id]]]

\* reprocessAll, one turn of its loop at position i (1-based): the loop test
\* and the call of processChunk it awaits
reprocessIteration(p, i) ==
  IF i <= Len(p.chunks)
  THEN [p |-> processChunk(p, p.chunks[i], "reprocess"),
        reproc |-> [state |-> "loop", i |-> i]]
  ELSE [p |-> p, reproc |-> [state |-> "exit", i |-> i]]

RemoveAt(seq, i) == SubSeq(seq, 1, i - 1) \o SubSeq(seq, i + 1, Len(seq))

Awaited(reqs, waiter) == \E i \in 1..Len(reqs) : reqs[i].waiter = waiter

\* A continuation is queued as a microtask: it runs before any timer or
\* network event is handled.
MicrotaskPending ==
  \/ \E i \in 1..Len(inflight) : ~inflight[i].fetched
  \/ batchWaiting /\ ~Awaited(inflight, "batch")
  \/ reproc.state = "loop" /\ ~Awaited(inflight, "reprocess")
  \/ reproc.state = "exit"
  \/ probe = "resolved"

(***************************************************************************)
(* VoiceCommandProcessor (src/components/editor/voice-command-processor    *)
(* .tsx): the buffer of the inline editor's spoken commands.  A call of    *)
(* processBufferedStream that got past its guard is a flush; it is in      *)
(* flight from there to its finally block, across the await of the pattern *)
(* pass (a microtask) and the awaits of the streaming request.             *)
(***************************************************************************)
\* submits in one run
MaxSubmits == 3

\* this.grokApiKey when no credential is configured
Null == "null"

\* includes: sub occurs in s
includes(s, sub) ==
  \/ sub = <<>>
  \/ \E i \in 0..(Len(s) - Len(sub)) :
       s[i + 1] = sub[1] /\ SubSeq(s, i + 1, i + Len(sub)) = sub

\* the characters of s
Chars(s) == { s[i] : i \in 1..Len(s) }

\* whether s, whose characters are chars, includes one of the texts of subs
includesSome(s, chars, subs) ==
  \E k \in 1..Len(subs) : subs[k][1] \in chars /\ includes(s, subs[k])

\* VoiceCommandProcessor.commands: the phrases of each command and the editor
\* command its action runs, in the order of the table
commands ==
  <<
    [ action |-> "toggleBold",
      patterns |-> <<
        <<"m", "a", "k", "e", " ", "t", "h", "i", "s", " ", "b", "o", "l", "d">>,
        <<"b", "o", "l", "d", " ", "t", "h", "i", "s">>,
        <<"m", "a", "k", "e", " ", "b", "o", "l", "d">>,
        <<"b", "o", "l", "d">> >> ],
    [ action |-> "toggleItalic",
      patterns |-> <<
        <<"m", "a", "k", "e", " ", "t", "h", "i", "s", " ", "i", "t", "a", "l", "i", "c">>,
        <<"i", "t", "a", "l", "i", "c", " ", "t", "h", "i", "s">>,
        <<"m", "a", "k", "e", " ", "i", "t", "a", "l", "i", "c">>,
        <<"i", "t", "a", "l", "i", "c">>,
        <<"i", "t", "a", "l", "i", "c", "i", "z", "e", " ", "t", "h", "i", "s">> >> ],
    [ action |-> "toggleHeading1",
      patterns |-> <<
        <<"h", "e", "a", "d", "i", "n", "g", " ", "o", "n", "e">>,
        <<"h", "e", "a", "d", "i", "n", "g", " ", "1">>,
        <<"m", "a", "k", "e", " ", "h", "e", "a", "d", "i", "n", "g", " ", "o", "n", "e">>,
        <<"h", "1">> >> ],
    [ action |-> "toggleHeading2",
      patterns |-> <<
        <<"h", "e", "a", "d", "i", "n", "g", " ", "t", "w", "o">>,
        <<"h", "e", "a", "d", "i", "n", "g", " ", "2">>,
        <<"m", "a", "k", "e", " ", "h", "e", "a", "d", "i", "n", "g", " ", "t", "w", "o">>,
        <<"h", "2">> >> ],
    [ action |-> "toggleHeading3",
      patterns |-> <<
        <<"h", "e", "a", "d", "i", "n", "g", " ", "t", "h", "r", "e", "e">>,
        <<"h", "e", "a", "d", "i", "n", "g", " ", "3">>,
        <<"m", "a", "k", "e", " ", "h", "e", "a", "d", "i", "n", "g", " ", "t", "h", "r", "e", "e">>,
        <<"h", "3">> >> ],
    [ action |-> "toggleBulletList",
      patterns |-> <<
        <<"b", "u", "l", "l", "e", "t", " ", "l", "i", "s", "t">>,
        <<"b", "u", "l", "l", "e", "t", " ", "p", "o", "i", "n", "t", "s">>,
        <<"m", "a", "k", "e", " ", "b", "u", "l", "l", "e", "t", " ", "l", "i", "s", "t">>,
        <<"b", "u", "l", "l", "e", "t", "e", "d", " ", "l", "i", "s", "t">> >> ],
    [ action |-> "toggleOrderedList",
      patterns |-> <<
        <<"n", "u", "m", "b", "e", "r", "e", "d", " ", "l", "i", "s", "t">>,
        <<"n", "u", "m", "b", "e", "r", " ", "l", "i", "s", "t">>,
        <<"o", "r", "d", "e", "r", "e", "d", " ", "l", "i", "s", "t">>,
        <<"m", "a", "k", "e", " ", "n", "u", "m", "b", "e", "r", "e", "d", " ", "l", "i", "s", "t">> >> ],
    [ action |-> "toggleBlockquote",
      patterns |-> <<
        <<"m", "a", "k", "e", " ", "q", "u", "o", "t", "e">>,
        <<"q", "u", "o", "t", "e", " ", "t", "h", "i", "s">>,
        <<"b", "l", "o", "c", "k", " ", "q", "u", "o", "t", "e">>,
        <<"m", "a", "k", "e", " ", "t", "h", "i", "s", " ", "a", " ", "q", "u", "o", "t", "e">> >> ],
    [ action |-> "setTextAlignCenter",
      patterns |-> <<
        <<"c", "e", "n", "t", "e", "r", " ", "t", "h", "i", "s">>,
        <<"c", "e", "n", "t", "e", "r", " ", "a", "l", "i", "g", "n">>,
        <<"a", "l", "i", "g", "n", " ", "c", "e", "n", "t", "e", "r">> >> ],
    [ action |-> "setTextAlignLeft",
      patterns |-> <<
        <<"l", "e", "f", "t", " ", "a", "l", "i", "g", "n">>,
        <<"a", "l", "i", "g", "n", " ", "l", "e", "f", "t">> >> ],
    [ action |-> "setTextAlignRight",
      patterns |-> <<
        <<"r", "i", "g", "h", "t", " ", "a", "l", "i", "g", "n">>,
        <<"a", "l", "i", "g", "n", " ", "r", "i", "g", "h", "t">> >> ],
    [ action |-> "setParagraph",
      patterns |-> <<
        <<"n", "o", "r", "m", "a", "l", " ", "t", "e", "x", "t">>,
        <<"m", "a", "k", "e", " ", "p", "a", "r", "a", "g", "r", "a", "p", "h">>,
        <<"r", "e", "g", "u", "l", "a", "r", " ", "t", "e", "x", "t">>,
        <<"p", "a", "r", "a", "g", "r", "a", "p", "h">> >> ],
    [ action |-> "toggleTaskList",
      patterns |-> <<
        <<"t", "a", "s", "k", " ", "l", "i", "s", "t">>,
        <<"t", "o", "d", "o", " ", "l", "i", "s", "t">>,
        <<"c", "h", "e", "c", "k", "l", "i", "s", "t">>,
        <<"m", "a", "k", "e", " ", "c", "h", "e", "c", "k", "l", "i", "s", "t">> >> ]
  >>

\* the keywords of containsCommandKeywords
commandKeywords ==
  <<
    <<"m", "a", "k", "e">>, <<"b", "o", "l", "d">>,
    <<"i", "t", "a", "l", "i", "c">>, <<"h", "e", "a", "d", "i", "n", "g">>,
    <<"l", "i", "s", "t">>, <<"q", "u", "o", "t", "e">>,
    <<"c", "e", "n", "t", "e", "r">>, <<"a", "l", "i", "g", "n">>,
    <<"b", "u", "l", "l", "e", "t">>,
    <<"n", "u", "m", "b", "e", "r", "e", "d">>, <<"t", "a", "s", "k">>,
    <<"p", "a", "r", "a", "g", "r", "a", "p", "h">>,
    <<"n", "o", "r", "m", "a", "l">>, <<"t", "u", "r", "n">>,
    <<"c", "o", "n", "v", "e", "r", "t">>, <<"f", "o", "r", "m", "a", "t">>,
    <<"c", "h", "a", "n", "g", "e">>,
    <<"t", "r", "a", "n", "s", "f", "o", "r", "m">>,
    <<"t", "i", "t", "l", "e">>, <<"f", "i", "r", "s", "t">>,
    <<"e", "v", "e", "r", "y", "t", "h", "i", "n", "g">>, <<"a", "l", "l">>,
    <<"w", "h", "o", "l", "e">>, <<"d", "o", "c", "u", "m", "e", "n", "t">>,
    <<"l", "i", "n", "e">>, <<"p", "a", "r", "a", "g", "r", "a", "p", "h">>,
    <<"t", "e", "x", "t">>,
    <<"i", "n", "t", "r", "o", "d", "u", "c", "t", "i", "o", "n">>,
    <<"c", "o", "n", "c", "l", "u", "s", "i", "o", "n">>,
    <<"w", "a", "n", "t">>, <<"p", "l", "e", "a", "s", "e">>,
    <<"c", "a", "n">>, <<"s", "h", "o", "u", "l", "d">>,
    <<"n", "e", "e", "d">>, <<"h", "1">>, <<"h", "2">>, <<"h", "3">>,
    <<"c", "h", "e", "c", "k", "l", "i", "s", "t">>, <<"t", "o", "d", "o">> >>
\* "Bold"
BoldText == <<"B", "o", "l", "d">>
\* "go."
GoText == <<"g", "o", ".">>
\* "we do it so": four words, no keyword
FourWords == <<"w", "e", " ", "d", "o", " ", "i", "t", " ", "s", "o">>

\* if (this.streamBuffer.length > 300)
BufferCeiling == 300
\* one word of 301 characters
LongText == [i \in 1..(BufferCeiling + 1) |-> "x"]

\* the texts of the fragments submitted
FragmentTexts == { <<>>, BoldText, GoText, FourWords, LongText }

\* (chunk.confidence || 0) > 0.7
HighConfidence == Frac(7, 10)

\* the confidences of the fragments submitted
Confidences == { HighConfidence, One }

\* the editor a fragment is submitted with: whether it has a selection, and
\* whether its commands throw
Editors ==
  { [hasSelection |-> FALSE, throws |-> FALSE],
    [hasSelection |-> TRUE, throws |-> FALSE],
    [hasSelection |-> TRUE, throws |-> TRUE] }

\* What the network gives back for the streaming request: the fetch rejects,
\* or answers with a status, with or without a body, whose reading ends or
\* breaks, and the text accumulated from its data lines: none, the
\* document's own HTML, text without markup, or new HTML.
StreamResponse(net, ok, body, stream, accumulated) ==
  [net |-> net, ok |-> ok, body |-> body, stream |-> stream,
   accumulated |-> accumulated]

StreamResponses ==
  { StreamResponse("failed", FALSE, FALSE, "none", "empty"),
    StreamResponse("answered", FALSE, TRUE, "none", "empty"),
    StreamResponse("answered", TRUE, FALSE, "none", "empty"),
    StreamResponse("answered", TRUE, TRUE, "broken", "html"),
    StreamResponse("answered", TRUE, TRUE, "done", "empty"),
    StreamResponse("answered", TRUE, TRUE, "done", "same"),
    StreamResponse("answered", TRUE, TRUE, "done", "prose"),
    StreamResponse("answered", TRUE, TRUE, "done", "html") }

VARIABLES
  grokApiKey,         \* VoiceCommandProcessor.grokApiKey
  streamBuffer,       \* VoiceCommandProcessor.streamBuffer
  processingQueue,    \* VoiceCommandProcessor.processingQueue
  isProcessingStream, \* VoiceCommandProcessor.isProcessingStream
  flushes,            \* the processBufferedStream calls past their guard, oldest first
  late,               \* the text appended to the buffer while a flush was in flight
  submits,            \* processStreamingChunk calls made so far
  vlast               \* the call or event of the last step of the processor

vcpVars ==
  << grokApiKey, streamBuffer, processingQueue, isProcessingStream, flushes,
     late, submits, vlast >>

vars == << rtmVars, vcpVars >>

FracLess(x, y) == x.num * y.den < y.num * x.den

\* containsCommandKeywords
containsCommandKeywords(text) ==
  LET lowerText == toLowerCase(text)
      chars == Chars(lowerText)
  IN  includesSome(lowerText, chars, commandKeywords)

\* /[.!?]$/.test(chunk.text.trim())
EndsWithPunctuation(text) ==
  LET t == trim(text)
  IN  t # <<>> /\ t[Len(t)] \in {".", "!", "?"}

\* wordCount >= 2 && containsCommandKeywords
QuickWords == 2
\* wordCount >= 3
StandardWords == 3

\* shouldProcessBuffer without its quickProcess test
shouldProcessBuffer_noQuick(buffer, chunk) ==
  LET wordCount == Len(split(trim(buffer)))
      endsWithPunctuation == EndsWithPunctuation(chunk.text)
      highConfidence ==
        chunk.confidence # UndefinedNumber
          /\ FracLess(HighConfidence, chunk.confidence)
      standardProcess == wordCount >= StandardWords
      immediateProcess == endsWithPunctuation \/ highConfidence
  IN  standardProcess \/ immediateProcess

\* shouldProcessBuffer(chunk), given the buffer
shouldProcessBuffer(buffer, chunk) ==
  LET wordCount == Len(split(trim(buffer)))
      endsWithPunctuation == EndsWithPunctuation(chunk.text)
      highConfidence ==
        chunk.confidence # UndefinedNumber
          /\ FracLess(HighConfidence, chunk.confidence)
      quickProcess == wordCount >= QuickWords /\ containsCommandKeywords(buffer)
      standardProcess == wordCount >= StandardWords
      immediateProcess == endsWithPunctuation \/ highConfidence
  IN  quickProcess \/ standardProcess \/ immediateProcess

\* the first command of the table one of whose phrases occurs in the text;
\* 0 when none does
MatchingCommand(normalizedText) ==
  LET chars == Chars(normalizedText)
      matching ==
        { c \in 1..Len(commands) :
            includesSome(normalizedText, chars, commands[c].patterns) }
  IN  IF matching = {} THEN 0
      ELSE CHOOSE c \in matching : \A b \in matching : c <= b

\* processPatternMatching that does not look at the selection
processPatternMatching_ignoresSelection(text, editor) ==
  LET normalizedText == trim(toLowerCase(text))
      c == MatchingCommand(normalizedText)
  IN  IF c # 0
      THEN [ result |-> ~editor.throws, action |-> commands[c].action ]
      ELSE [ result |-> FALSE, action |-> "none" ]

\* processPatternMatching(text, editor): what it returns and the action it
\* called on the editor
processPatternMatching(text, editor) ==
  LET normalizedText == trim(toLowerCase(text))
      c == MatchingCommand(normalizedText)
  IN  IF editor.hasSelection /\ c # 0
      THEN [ result |-> ~editor.throws, action |-> commands[c].action ]
      ELSE [ result |-> FALSE, action |-> "none" ]

\* what processWithGrokStreaming returns once its request has ended
processWithGrokStreaming(response) ==
  IF response.net # "answered" THEN FALSE
  ELSE IF ~response.ok THEN FALSE
  ELSE IF ~response.body THEN FALSE
  ELSE IF response.stream # "done" THEN FALSE
  ELSE response.accumulated = "html"

\* words.length > 5, this.processingQueue.length > 5
KeepAbove == 5
\* slice(-3)
KeepLast == 3

\* partialClearBuffer with >= for > in its test of the number of words
partialClearBuffer_atLeast(v) ==
  LET words == split(trim(v.streamBuffer))
  IN  [v EXCEPT
        !.streamBuffer =
           IF Len(words) >= KeepAbove
           THEN join(SliceLast(words, KeepLast)) \o <<" ">>
           ELSE <<>>,
        !.processingQueue =
           IF Len(v.processingQueue) > KeepAbove
           THEN SliceLast(v.processingQueue, KeepLast)
           ELSE <<>>]

\* partialClearBuffer on the processor's state v
partialClearBuffer(v) ==
  LET words == split(trim(v.streamBuffer))
  IN  [v EXCEPT
        !.streamBuffer =
           IF Len(words) > KeepAbove
           THEN join(SliceLast(words, KeepLast)) \o <<" ">>
           ELSE <<>>,
        !.processingQueue =
           IF Len(v.processingQueue) > KeepAbove
           THEN SliceLast(v.processingQueue, KeepLast)
           ELSE <<>>]

\* clearBuffer
clearBuffer(v) == [v EXCEPT !.streamBuffer = <<>>, !.processingQueue = <<>>]

\* The processor's state within a step: its fields, and what the step did:
\* result is what the submit in question returns ("pending" while its flush
\* is in flight), action the editor command called, fetches the network
\* requests made.
Vcp ==
  [ streamBuffer |-> streamBuffer, processingQueue |-> processingQueue,
    isProcessingStream |-> isProcessingStream, flushes |-> flushes,
    triggered |-> FALSE, result |-> "none", action |-> "none", fetches |-> 0 ]

\* processBufferedStream from its end without its finally block
Finish_keepsGuard(v, i, result) ==
  [v EXCEPT !.flushes = RemoveAt(@, i),
            !.result = IF result THEN "true" ELSE "false"]

\* processBufferedStream from its end: the finally block, and the promise of
\* flush i settles with result
Finish(v, i, result) ==
  [v EXCEPT !.isProcessingStream = FALSE,
            !.flushes = RemoveAt(@, i),
            !.result = IF result THEN "true" ELSE "false"]

\* processBufferedStream, "If buffer is getting too long without matches"
GiveUp(v, i) ==
  Finish(IF Len(v.streamBuffer) > BufferCeiling THEN clearBuffer(v) ELSE v,
         i, FALSE)

\* processBufferedStream without its guard on isProcessingStream
processBufferedStream_unguarded(v, editor) ==
  IF trim(v.streamBuffer) = <<>>
  THEN [v EXCEPT !.result = "false"]
  ELSE LET patternResult == processPatternMatching(v.streamBuffer, editor)
       IN  [v EXCEPT
             !.isProcessingStream = TRUE,
             !.flushes = Append(@, [ stage |-> "pattern", editor |-> editor,
                                     patternResult |-> patternResult.result,
                                     action |-> patternResult.action ]),
             !.action = patternResult.action,
             !.result = "pending"]

\* processBufferedStream(editor) up to its first await: the guard, and the
\* pattern pass, which runs to its end before the await is reached
processBufferedStream(v, editor) ==
  IF v.isProcessingStream \/ trim(v.streamBuffer) = <<>>
  THEN [v EXCEPT !.result = "false"]
  ELSE LET patternResult == processPatternMatching(v.streamBuffer, editor)
       IN  [v EXCEPT
             !.isProcessingStream = TRUE,
             !.flushes = Append(@, [ stage |-> "pattern", editor |-> editor,
                                     patternResult |-> patternResult.result,
                                     action |-> patternResult.action ]),
             !.action = patternResult.action,
             !.result = "pending"]

\* processBufferedStream after the await of the pattern pass
continueBufferedStream(v, i) ==
  IF v.flushes[i].patternResult
  THEN Finish(partialClearBuffer(v), i, TRUE)
  ELSE IF grokApiKey # Null
       THEN [v EXCEPT !.flushes[i].stage = "streaming",
                      !.fetches = @ + 1,
                      !.result = "pending"]
       ELSE GiveUp(v, i)

\* processBufferedStream after the await of processWithGrokStreaming
resumeBufferedStream(v, i, response) ==
  IF processWithGrokStreaming(response)
  THEN Finish(partialClearBuffer([v EXCEPT !.action = "setContent"]), i, TRUE)
  ELSE GiveUp(v, i)

\* processStreamingChunk(chunk, editor) up to its await
processStreamingChunk(v, chunk, editor) ==
  LET v1 == [v EXCEPT !.processingQueue = Append(@, chunk),
                      !.streamBuffer = @ \o chunk.text \o <<" ">>]
  IN  IF shouldProcessBuffer(v1.streamBuffer, chunk)
      THEN processBufferedStream([v1 EXCEPT !.triggered = TRUE], editor)
      ELSE [v1 EXCEPT !.result = "false"]

NoEditor == [hasSelection |-> FALSE, throws |-> FALSE]

VStep(op, chunk, editor, v) ==
  [ op |-> op, chunk |-> chunk, editor |-> editor, triggered |-> v.triggered,
    result |-> v.result, action |-> v.action, fetches |-> v.fetches ]

NoChunk == [text |-> <<>>, confidence |-> UndefinedNumber]

VCommit(v) ==
  /\ streamBuffer' = v.streamBuffer
  /\ processingQueue' = v.processingQueue
  /\ isProcessingStream' = v.isProcessingStream
  /\ flushes' = v.flushes

InitCommands ==
  /\ grokApiKey = (IF apiKey = NoKey THEN Null ELSE apiKey)
  /\ streamBuffer = <<>>
  /\ processingQueue = <<>>
  /\ isProcessingStream = FALSE
  /\ flushes = <<>>
  /\ late = <<>>
  /\ submits = 0
  /\ vlast = VStep("new", NoChunk, NoEditor, Vcp)

\* processStreamingChunk(chunk, editor) is called
Submit(text, confidence, editor) ==
  /\ submits < MaxSubmits
  /\ LET chunk == [text |-> text, confidence |-> confidence]
         v == processStreamingChunk(Vcp, chunk, editor)
     IN  /\ VCommit(v)
         /\ vlast' = VStep("submit", chunk, editor, v)
         /\ late' = IF flushes # <<>> THEN late \o text \o <<" ">> ELSE <<>>
  /\ submits' = submits + 1
  /\ UNCHANGED << grokApiKey, rtmVars >>

\* the flush goes on after the await of its pattern pass
FlushContinues(i) ==
  /\ i \in 1..Len(flushes)
  /\ flushes[i].stage = "pattern"
  /\ LET v == continueBufferedStream(Vcp, i)
     IN  /\ VCommit(v)
         /\ vlast' = VStep("continue", NoChunk, NoEditor, v)
         /\ late' = IF v.flushes = <<>> THEN <<>> ELSE late
  /\ UNCHANGED << grokApiKey, submits, rtmVars >>

\* the streaming request of a flush ends and the flush goes on to its end;
\* the continuations of the pattern passes run first
StreamEnds(i, response) ==
  /\ i \in 1..Len(flushes)
  /\ flushes[i].stage = "streaming"
  /\ \A j \in 1..Len(flushes) : flushes[j].stage # "pattern"
  /\ LET v == resumeBufferedStream(Vcp, i, response)
     IN  /\ VCommit(v)
         /\ vlast' = VStep("streamEnd", NoChunk, NoEditor, v)
         /\ late' = IF v.flushes = <<>> THEN <<>> ELSE late
  /\ UNCHANGED << grokApiKey, submits, rtmVars >>

(***************************************************************************)
(* Actions of the transcript manager                                       *)
(***************************************************************************)
NoOutcome == [settled |-> "none", value |-> "none"]

Step(op, text, isFinal, response, outcome, fetches) ==
  [ op |-> op, text |-> text, isFinal |-> isFinal, response |-> response,
    outcome |-> outcome, fetches |-> fetches ]

Call(op, fetches) == Step(op, <<>>, FALSE, NoResponse, NoOutcome, fetches)

Commit(p) ==
  /\ chunks' = p.chunks
  /\ obj' = p.obj
  /\ inflight' = p.inflight
  /\ notified' = p.notified
  /\ calls' = p.calls
  /\ failed' = p.failed
  /\ issued' = p.issued

Init ==
  /\ apiKey \in ApiKeys
  /\ isEnabled = TRUE
  /\ chunks = <<>>
  /\ obj = <<>>
  /\ inflight = <<>>
  /\ debounceTimer = "null"
  /\ staleTimers = 0
  /\ coalesced = 0
  /\ updateCallbacks = <<>>
  /\ batchWaiting = FALSE
  /\ batchChunkIds = <<>>
  /\ reproc = [state |-> "idle", i |-> 0]
  /\ reprocessCalls = 0
  /\ probe = "idle"
  /\ available = "unknown"
  /\ notified = <<>>
  /\ calls = <<>>
  /\ failed = FALSE
  /\ issued = <<>>
  /\ lastCompleted = 0
  /\ correction = NoCorrection
  /\ last = Call("new", 0)
  /\ InitCommands

\* debouncedUpdate without its clearTimeout: the timer set before stays
\* scheduled
debouncedUpdate_noClear(t) ==
  [ debounceTimer |-> "pending",
    staleTimers |-> t.staleTimers + (IF t.debounceTimer = "pending" THEN 1 ELSE 0),
    coalesced |-> IF t.debounceTimer = "pending" THEN t.coalesced + 1 ELSE 1 ]

\* RealtimeTranscriptManager.debouncedUpdate on the timers
\* t = [debounceTimer, staleTimers, coalesced]: the timer debounceTimer refers
\* to is cancelled if it is still scheduled, and a new one is set
debouncedUpdate(t) ==
  [ debounceTimer |-> "pending",
    staleTimers |-> t.staleTimers,
    coalesced |-> IF t.debounceTimer = "pending" THEN t.coalesced + 1 ELSE 1 ]

DebouncedUpdate ==
  LET t == debouncedUpdate([ debounceTimer |-> debounceTimer,
                             staleTimers |-> staleTimers,
                             coalesced |-> coalesced ])
  IN  /\ debounceTimer' = t.debounceTimer
      /\ staleTimers' = t.staleTimers
      /\ coalesced' = t.coalesced

\* RealtimeTranscriptManager.addChunk without its test of text.trim()
AddChunk_noTrimTest(text, isFinal) ==
  /\ (isEnabled /\ Truthy(trim(text))) => Len(obj) < MaxChunks
  /\ IF ~isEnabled
     THEN /\ Commit(Proc)
          /\ UNCHANGED << debounceTimer, staleTimers, coalesced >>
          /\ last' = Step("addChunk", text, isFinal, NoResponse, NoOutcome, 0)
     ELSE LET p == addChunk(Proc, text, isFinal)
          IN  /\ Commit(p)
              /\ DebouncedUpdate
              /\ last' = Step("addChunk", text, isFinal, NoResponse, NoOutcome,
                              p.fetches)
  /\ UNCHANGED << vcpVars, correction, batchChunkIds, apiKey, updateCallbacks, isEnabled, batchWaiting, reproc, reprocessCalls, probe,
                  available, lastCompleted >>

\* RealtimeTranscriptManager.addChunk without its test of isEnabled
AddChunk_ignoresSwitch(text, isFinal) ==
  /\ Truthy(trim(text)) => Len(obj) < MaxChunks
  /\ IF ~Truthy(trim(text))
     THEN /\ Commit(Proc)
          /\ UNCHANGED << debounceTimer, staleTimers, coalesced >>
          /\ last' = Step("addChunk", text, isFinal, NoResponse, NoOutcome, 0)
     ELSE LET p == addChunk(Proc, text, isFinal)
          IN  /\ Commit(p)
              /\ DebouncedUpdate
              /\ last' = Step("addChunk", text, isFinal, NoResponse, NoOutcome,
                              p.fetches)
  /\ UNCHANGED << vcpVars, correction, batchChunkIds, apiKey, updateCallbacks, isEnabled, batchWaiting, reproc,
                  reprocessCalls, probe, available, lastCompleted >>

\* RealtimeTranscriptManager.addChunk(text, isFinal), in a run of at most
\* limit chunks
AddChunkWithin(text, isFinal, limit) ==
  /\ (isEnabled /\ Truthy(trim(text))) => Len(obj) < limit
  /\ IF ~isEnabled \/ ~Truthy(trim(text))
     THEN /\ Commit(Proc)
          /\ UNCHANGED << debounceTimer, staleTimers, coalesced >>
          /\ last' = Step("addChunk", text, isFinal, NoResponse, NoOutcome, 0)
     ELSE LET p == addChunk(Proc, text, isFinal)
          IN  /\ Commit(p)
              /\ DebouncedUpdate
              /\ last' = Step("addChunk", text, isFinal, NoResponse, NoOutcome,
                              p.fetches)
  /\ UNCHANGED << vcpVars, correction, batchChunkIds, apiKey, updateCallbacks, isEnabled, batchWaiting, reproc, reprocessCalls, probe,
                  available, lastCompleted >>

\* RealtimeTranscriptManager.addChunk(text, isFinal)
AddChunk(text, isFinal) == AddChunkWithin(text, isFinal, MaxChunks)

\* the debounce timer fires: () => this.notifyUpdate()
TimerFires ==
  /\ debounceTimer = "pending" \/ staleTimers > 0
  /\ ~MicrotaskPending
  /\ Commit(notifyUpdate(Proc))
  /\ IF staleTimers > 0
     THEN staleTimers' = staleTimers - 1 /\ UNCHANGED debounceTimer
     ELSE debounceTimer' = "fired" /\ UNCHANGED staleTimers
  /\ last' = Call("timer", 0)
  /\ UNCHANGED << vcpVars, correction, batchChunkIds, apiKey, updateCallbacks, coalesced, isEnabled, batchWaiting, reproc, reprocessCalls, probe,
                  available, lastCompleted >>

\* RealtimeTranscriptManager.clear()
Clear ==
  /\ Commit(notifyUpdate(clear(Proc)))
  /\ last' = Call("clear", 0)
  /\ UNCHANGED << vcpVars, correction, batchChunkIds, apiKey, updateCallbacks, isEnabled, debounceTimer, staleTimers, coalesced, batchWaiting, reproc,
                  reprocessCalls, probe, available, lastCompleted >>

\* RealtimeTranscriptManager.setEnabled(enabled)
SetEnabled(enabled) ==
  /\ isEnabled' = enabled
  /\ Commit(Proc)
  /\ last' = Call("setEnabled", 0)
  /\ UNCHANGED << vcpVars, correction, batchChunkIds, apiKey, updateCallbacks, debounceTimer, staleTimers, coalesced, batchWaiting, reproc, reprocessCalls,
                  probe, available, lastCompleted >>

\* subscriptions made in one run
MaxCallbacks == 2

\* Array.prototype.indexOf, 1-based; 0 when absent
indexOf(seq, x) ==
  IF \E i \in 1..Len(seq) : seq[i] = x
  THEN CHOOSE i \in 1..Len(seq) :
         seq[i] = x /\ \A j \in 1..(i - 1) : seq[j] # x
  ELSE 0

\* RealtimeTranscriptManager.onUpdate(callback)
OnUpdate(callback) ==
  /\ Len(updateCallbacks) < MaxCallbacks
  /\ updateCallbacks' = Append(updateCallbacks, callback)
  /\ Commit(Proc)
  /\ last' = Call("onUpdate", 0)
  /\ UNCHANGED << vcpVars, correction, batchChunkIds, apiKey, isEnabled, debounceTimer, staleTimers, coalesced,
                  batchWaiting, reproc, reprocessCalls, probe, available,
                  lastCompleted >>

\* the function onUpdate(callback) returned is called
Unsubscribe(callback) ==
  /\ LET index == indexOf(updateCallbacks, callback)
     IN  updateCallbacks' = IF index > 0 THEN RemoveAt(updateCallbacks, index)
                            ELSE updateCallbacks
  /\ Commit(Proc)
  /\ last' = Call("unsubscribe", 0)
  /\ UNCHANGED << vcpVars, correction, batchChunkIds, apiKey, isEnabled, debounceTimer, staleTimers, coalesced,
                  batchWaiting, reproc, reprocessCalls, probe, available,
                  lastCompleted >>

\* the texts of one processBatch call
Batches == UNION { [1..n -> Texts] : n \in 0..MaxBatch }

NonEmpty(texts) == Cardinality({ i \in 1..Len(texts) : Truthy(trim(texts[i])) })

\* RealtimeTranscriptManager.processBatch(texts), up to its await
ProcessBatch(texts) ==
  /\ ~batchWaiting
  /\ isEnabled => Len(obj) + NonEmpty(texts) <= MaxChunks
  /\ IF ~isEnabled
     THEN /\ Commit(Proc)
          /\ UNCHANGED << batchWaiting, batchChunkIds >>
          /\ last' = Call("processBatch", 0)
     ELSE LET p == processBatch(Proc, texts)
          IN  /\ Commit(p)
              /\ batchWaiting' = TRUE
              /\ batchChunkIds' = AddAll(Proc, texts, 1, <<>>).chunkIds
              /\ last' = Call("processBatch", p.fetches)
  /\ UNCHANGED << vcpVars, correction, apiKey, updateCallbacks, isEnabled, debounceTimer, staleTimers, coalesced, reproc, reprocessCalls,
                  probe, available, lastCompleted >>

\* RealtimeTranscriptManager.processBatch after its await: every promise of
\* Promise.all has settled
BatchResumes ==
  /\ batchWaiting
  /\ ~Awaited(inflight, "batch")
  /\ Commit(notifyUpdate(Proc))
  /\ batchWaiting' = FALSE
  /\ batchChunkIds' = <<>>
  /\ last' = Call("batchDone", 0)
  /\ UNCHANGED << vcpVars, correction, apiKey, updateCallbacks, isEnabled, debounceTimer, staleTimers, coalesced, reproc, reprocessCalls,
                  probe, available, lastCompleted >>

\* RealtimeTranscriptManager.reprocessAll(), up to its first await
ReprocessAll ==
  /\ reproc.state = "idle"
  /\ reprocessCalls < MaxReprocess
  /\ LET r == reprocessIteration(resetAll(Proc), 1)
     IN  /\ Commit(r.p)
         /\ reproc' = r.reproc
         /\ last' = Call("reprocessAll", r.p.fetches)
  /\ reprocessCalls' = reprocessCalls + 1
  /\ UNCHANGED << vcpVars, correction, batchChunkIds, apiKey, updateCallbacks, isEnabled, debounceTimer, staleTimers, coalesced, batchWaiting, probe,
                  available, lastCompleted >>

\* reprocessAll's loop goes on after the processChunk it awaited
ReprocessResumes ==
  /\ reproc.state = "loop"
  /\ ~Awaited(inflight, "reprocess")
  /\ LET r == reprocessIteration(Proc, reproc.i + 1)
     IN  /\ Commit(r.p)
         /\ reproc' = r.reproc
         /\ last' = Call("reprocessNext", r.p.fetches)
  /\ UNCHANGED << vcpVars, correction, batchChunkIds, apiKey, updateCallbacks, isEnabled, debounceTimer, staleTimers, coalesced, batchWaiting, reprocessCalls,
                  probe, available, lastCompleted >>

\* RealtimeTranscriptManager.reprocessAll after its await
ReprocessFinishes ==
  /\ reproc.state = "exit"
  /\ Commit(notifyUpdate(Proc))
  /\ reproc' = [state |-> "idle", i |-> 0]
  /\ last' = Call("reprocessDone", 0)
  /\ UNCHANGED << vcpVars, correction, batchChunkIds, apiKey, updateCallbacks, isEnabled, debounceTimer, staleTimers, coalesced, batchWaiting, reprocessCalls,
                  probe, available, lastCompleted >>

\* The correctTranscript call of request i settles and processChunk goes on.
\* A request that made no fetch settles in a microtask; one that did settles
\* when the network answers or fails.
Completes(i, response) ==
  /\ i \in 1..Len(inflight)
  /\ IF inflight[i].fetched
     THEN response \in Responses /\ ~MicrotaskPending
     ELSE response = NoResponse
  /\ LET request == inflight[i]
         outcome == correctTranscript(apiKey, request.text, response)
         p == resumeProcessChunk([Proc EXCEPT !.inflight = RemoveAt(@, i)],
                                 request.chunk, outcome)
     IN  /\ Commit(p)
         /\ lastCompleted' = request.chunk
         /\ last' = Step("complete", request.text, FALSE, response, outcome, 0)
  /\ UNCHANGED << vcpVars, correction, batchChunkIds, apiKey, updateCallbacks, isEnabled, debounceTimer, staleTimers, coalesced, batchWaiting, reproc,
                  reprocessCalls, probe, available >>

\* RealtimeTranscriptManager.isServiceAvailable(), up to its await
IsServiceAvailable ==
  /\ probe = "idle"
  /\ probe' = IF FetchesWithKey(apiKey) THEN "fetching" ELSE "resolved"
  /\ Commit(Proc)
  /\ last' = Call("isServiceAvailable", IF FetchesWithKey(apiKey) THEN 1 ELSE 0)
  /\ UNCHANGED << vcpVars, correction, batchChunkIds, apiKey, updateCallbacks, isEnabled, debounceTimer, staleTimers, coalesced, batchWaiting, reproc,
                  reprocessCalls, available, lastCompleted >>

\* the promise of isServiceAvailable() settles
ProbeSettles(response) ==
  /\ probe # "idle"
  /\ IF probe = "fetching"
     THEN response \in Responses /\ ~MicrotaskPending
     ELSE response = NoResponse
  /\ LET outcome == isAvailable(apiKey, response)
     IN  available' = IF outcome.settled = "rejected" THEN "error"
                      ELSE IF outcome.value THEN "true" ELSE "false"
  /\ probe' = "idle"
  /\ Commit(Proc)
  /\ last' = Step("probeDone", <<>>, FALSE, response, NoOutcome, 0)
  /\ UNCHANGED << vcpVars, correction, batchChunkIds, apiKey, updateCallbacks, isEnabled, debounceTimer, staleTimers, coalesced, batchWaiting, reproc,
                  reprocessCalls, lastCompleted >>

\* The promise processChunk awaits rejects: the Oracle client threw.
OracleThrows(i) ==
  /\ i \in 1..Len(inflight)
  /\ inflight[i].fetched => ~MicrotaskPending
  /\ LET request == inflight[i]
         p == resumeProcessChunk([Proc EXCEPT !.inflight = RemoveAt(@, i)],
                                 request.chunk, Rejected)
     IN  /\ Commit(p)
         /\ lastCompleted' = request.chunk
         /\ last' = Step("complete", request.text, FALSE, NoResponse, Rejected, 0)
  /\ UNCHANGED << vcpVars, correction, batchChunkIds, apiKey, updateCallbacks, isEnabled, debounceTimer, staleTimers, coalesced, batchWaiting, reproc,
                  reprocessCalls, probe, available >>

\* GrokService.correctTranscript(text, context) is called and settles
CorrectTranscript(text, response) ==
  /\ IF FetchesWithKey(apiKey) THEN response \in ServiceResponses
     ELSE response = NoResponse
  /\ correction' = [ text |-> text, response |-> response,
                     outcome |-> correctTranscript(apiKey, text, response) ]
  /\ Commit(Proc)
  /\ last' = Step("correctTranscript", text, FALSE, response, NoOutcome,
                  IF FetchesWithKey(apiKey) THEN 1 ELSE 0)
  /\ UNCHANGED << vcpVars, batchChunkIds, apiKey, updateCallbacks, isEnabled,
                  debounceTimer, staleTimers, coalesced, batchWaiting, reproc,
                  reprocessCalls, probe, available, lastCompleted >>

(***************************************************************************)
(* Specifications.  The chunk store, the enable switch, reprocessAll and   *)
(* the availability probe share no state but the store itself, and the     *)
(* calls left out of a specification never write what its calls read, so   *)
(* each specification explores the part of the system its claims are about.*)
(***************************************************************************)

\* The normal flow of the chunk store: ingestion, batches, clear, the
\* debounce timer and the corrections settling in any order.
Next ==
  \/ \E text \in Texts, isFinal \in BOOLEAN : AddChunk(text, isFinal)
  \/ TimerFires
  \/ Clear
  \/ \E texts \in Batches : ProcessBatch(texts)
  \/ BatchResumes
  \/ \E i \in 1..Len(inflight), response \in Responses \cup {NoResponse} :
       Completes(i, response)

Spec == Init /\ [][Next]_vars

\* Ingestion by addChunk alone, with the availability probe.
NextIngest ==
  \/ \E text \in Texts, isFinal \in BOOLEAN : AddChunk(text, isFinal)
  \/ TimerFires
  \/ \E i \in 1..Len(inflight), response \in Responses \cup {NoResponse} :
       Completes(i, response)
  \/ IsServiceAvailable
  \/ \E response \in Responses \cup {NoResponse} : ProbeSettles(response)

SpecIngest == Init /\ [][NextIngest]_vars

\* The normal flow with an Oracle client whose promise may reject.
NextThrow ==
  \/ Next
  \/ \E i \in 1..Len(inflight) : OracleThrows(i)

SpecThrow == Init /\ [][NextThrow]_vars

\* The normal flow with the enable switch and reprocessAll.
NextReprocess ==
  \/ \E text \in Texts \ {<<>>} : AddChunk(text, TRUE)
  \/ Clear
  \/ \E enabled \in BOOLEAN : SetEnabled(enabled)
  \/ ReprocessAll
  \/ ReprocessResumes
  \/ ReprocessFinishes
  \/ \E i \in 1..Len(inflight), response \in Responses \cup {NoResponse} :
       Completes(i, response)

SpecReprocess == Init /\ [][NextReprocess]_vars

\* a request in flight can settle: one that made no fetch at once, one that
\* did as soon as no continuation is waiting to run
CompletionDue ==
  \E i \in 1..Len(inflight) : inflight[i].fetched => ~MicrotaskPending

\* the loop of reprocessAll can go on: the processChunk it awaits has returned
LoopDue == reproc.state = "loop" /\ ~Awaited(inflight, "reprocess")

\* The flow with reprocessAll under weak fairness of the three kinds of
\* continuation (each is written as "infinitely often not due, or infinitely
\* often taken"): every request issued returns or fails in the end, and the
\* event loop runs every continuation that is due.
SpecSettle ==
  /\ Init
  /\ [][NextReprocess]_vars
  /\ ([]<>(~CompletionDue) \/ []<><<last'.op = "complete">>_vars)
  /\ ([]<>(~LoopDue) \/ []<><<last'.op = "reprocessNext">>_vars)
  /\ ([]<>(reproc.state # "exit") \/ []<><<last'.op = "reprocessDone">>_vars)

\* The normal flow with subscribers that come and go, one of which throws.
NextSubscribers ==
  \/ \E callback \in Callbacks : OnUpdate(callback)
  \/ \E callback \in Callbacks : Unsubscribe(callback)
  \/ \E text \in Texts \ {<<>>, <<" ", " ">>}, isFinal \in BOOLEAN :
       AddChunk(text, isFinal)
  \/ TimerFires
  \/ Clear
  \/ \E i \in 1..Len(inflight), response \in {NoResponse, Rewritten, Non2xx} :
       Completes(i, response)

SpecSubscribers == Init /\ [][NextSubscribers]_vars

\* The calls that notify, reprocessAll among them, with subscribers.
NextNotify ==
  \/ OnUpdate("render")
  \/ \E text \in Texts \ {<<>>, <<" ", " ">>}, isFinal \in BOOLEAN :
       AddChunk(text, isFinal)
  \/ TimerFires
  \/ Clear
  \/ ReprocessAll
  \/ ReprocessResumes
  \/ ReprocessFinishes
  \/ \E i \in 1..Len(inflight), response \in {NoResponse, Rewritten} :
       Completes(i, response)

SpecNotify == Init /\ [][NextNotify]_vars

\* The voice command processor: submits, and the flushes going on.
NextCommands ==
  \/ \E text \in FragmentTexts, confidence \in Confidences, editor \in Editors :
       Submit(text, confidence, editor)
  \/ \E i \in 1..Len(flushes) : FlushContinues(i)
  \/ \E i \in 1..Len(flushes), response \in StreamResponses :
       StreamEnds(i, response)

SpecCommands == Init /\ [][NextCommands]_vars

\* The Oracle client called on its own.
NextService ==
  \E text \in ServiceTexts, response \in ServiceResponses \cup {NoResponse} :
    CorrectTranscript(text, response)

SpecService == Init /\ [][NextService]_vars

\* "go": a text too short to be corrected unless it is final
ShortText == <<"g", "o">>

\* chunks in a run that is about the context of the requests
MaxContextChunks == 5

\* A longer run of final chunks whose corrections settle in any order: with
\* a credential the Oracle rewrites the text or fails.
NextContext ==
  \/ \E text \in {ShortText, ElevenChars} :
       AddChunkWithin(text, TRUE, MaxContextChunks)
  \/ \E i \in 1..Len(inflight), response \in {NoResponse, Rewritten, Non2xx} :
       Completes(i, response)

SpecContext == Init /\ [][NextContext]_vars

\* Ingestion by addChunk and processBatch with the enable switch.
NextSwitch ==
  \/ \E text \in Texts, isFinal \in BOOLEAN : AddChunk(text, isFinal)
  \/ TimerFires
  \/ \E enabled \in BOOLEAN : SetEnabled(enabled)
  \/ \E texts \in Batches : ProcessBatch(texts)
  \/ BatchResumes
  \/ \E i \in 1..Len(inflight), response \in Responses \cup {NoResponse} :
       Completes(i, response)

SpecSwitch == Init /\ [][NextSwitch]_vars

(***************************************************************************)
(* Claims                                                                  *)
(***************************************************************************)
InStore(id) == findIndex(chunks, id) # 0

Processed == getProcessedTranscript(chunks, obj)
Raw == getRawTranscript(chunks, obj)

\* no chunk of the store has corrected text
NoneCorrected == \A i \in 1..Len(chunks) : ~Truthy(obj[chunks[i]].corrected)

\* C1: without reprocessAll, with completions in any order, at most one
\* Oracle request is ever issued for a chunk; a second processChunk on a
\* chunk that is processing or corrected issues none.
C1_AtMostOneRequest == \A id \in 1..Len(obj) : issued[id] <= 1

\* a batch of two texts was just taken in: its last chunk is final, so
\* addChunk and processBatch both called processChunk on it
C1_Witness ==
  /\ last.op = "processBatch"
  /\ Len(obj) = 2 /\ Len(chunks) = 2 /\ Len(notified) = 2
  /\ obj[2].isFinal /\ obj[2].isProcessing
  /\ issued = <<1, 1>>

\* the store is empty as its readers see it
StoreEmpty(cs, o) ==
  /\ getStats(cs, o).totalChunks = 0
  /\ getProcessedTranscript(cs, o) = <<>>
  /\ getRawTranscript(cs, o) = <<>>

\* C2: after clear() totalChunks is 0 and both transcripts are empty, and
\* a correction that was in flight and completes later (or any other event
\* that is not a new ingestion) leaves it so.
C2_ClearIsTotal ==
  [][ /\ last'.op = "clear" => StoreEmpty(chunks', obj')
      /\ (StoreEmpty(chunks, obj)
            /\ last'.op \in {"complete", "timer", "batchDone"})
         => StoreEmpty(chunks', obj') ]_vars

\* a request outlived clear() and has now completed on the removed chunk
C2_Witness ==
  /\ last.op = "complete"
  /\ lastCompleted # 0 /\ ~InStore(lastCompleted)
  /\ Truthy(obj[lastCompleted].corrected)
  /\ chunks = <<>>
  /\ inflight # <<>>

\* C3 (as claimed): with no credential, once every correction has settled,
\* the processed transcript equals the raw transcript.
C3_ProcessedEqualsRaw ==
  (apiKey = NoKey /\ inflight = <<>>) => Processed = Raw

\* C4 (as claimed): when a chunk has corrected text, the processed
\* transcript is the corrected text of the chunk corrected most recently.
C4_MostRecentlyCompleted ==
  (lastCompleted # 0 /\ InStore(lastCompleted)
     /\ Truthy(obj[lastCompleted].corrected))
  => Processed = obj[lastCompleted].corrected

\* C4 (amended): when a chunk has corrected text, the processed transcript
\* is the corrected text of the last chunk, in insertion order, that has
\* one, whatever the order of the completions.
C4_LastCorrectedInOrder ==
  \A i \in 1..Len(chunks) :
    ( /\ Truthy(obj[chunks[i]].corrected)
      /\ \A j \in (i + 1)..Len(chunks) : ~Truthy(obj[chunks[j]].corrected) )
    => Processed = obj[chunks[i]].corrected

\* both chunks are corrected, differently, and the first one's correction
\* completed last
C4_Witness ==
  /\ Len(chunks) = 2
  /\ lastCompleted = chunks[1]
  /\ Truthy(obj[chunks[1]].corrected) /\ Truthy(obj[chunks[2]].corrected)
  /\ obj[chunks[1]].corrected # obj[chunks[2]].corrected

\* C5 (as claimed): when no chunk has corrected text, the processed
\* transcript is the space-joined raw text of all chunks, also while chunks
\* are being processed.
C5_RawWhenNoneCorrected == NoneCorrected => Processed = Raw

\* C5 (amended): when no chunk has corrected text, the processed transcript
\* is the space-joined raw text, in insertion order, of the chunks that are
\* not being processed.
C5_IdleRawWhenNoneCorrected ==
  NoneCorrected =>
    Processed =
      trim(join(TextsOf(SelectSeq(Records(chunks, obj),
                                  LAMBDA c : ~c.isProcessing))))

\* nothing is corrected, one chunk waits and another is being processed
C5_Witness ==
  /\ NoneCorrected
  /\ Len(chunks) = 2
  /\ ~obj[chunks[1]].isProcessing /\ obj[chunks[2]].isProcessing
  /\ Processed = obj[chunks[1]].text

\* C6: correctTranscript always resolves; with no credential, on a network
\* failure, a non-2xx answer or an unparsable body it resolves with the
\* input text, confidence 0 and no changes.
C6_AlwaysResolves ==
  last.op = "complete" =>
    /\ last.outcome.settled = "fulfilled"
    /\ (apiKey = NoKey \/ last.response \in {NetworkFailure, Non2xx, Unparsable})
       => last.outcome.value =
            [correctedText |-> last.text, confidence |-> Zero, changes |-> <<>>]

\* a call with a credential got a body that does not parse
C6_Witness ==
  /\ last.op = "complete"
  /\ apiKey # NoKey
  /\ last.response = Unparsable

\* C7: when the Oracle call of a chunk throws, the chunk ends with corrected
\* equal to its text, confidence 0 and isProcessing false, subscribers are
\* notified, and processedChunks counts the chunk.
C7_FallbackOnThrow ==
  [][ (last'.op = "complete" /\ last'.outcome.settled = "rejected") =>
        LET id == lastCompleted'
        IN  /\ obj'[id].corrected = obj[id].text
            /\ obj'[id].text = obj[id].text
            /\ obj'[id].confidence = Zero
            /\ ~obj'[id].isProcessing
            /\ Len(notified') >= 1
            /\ findIndex(chunks', id) # 0 =>
                 /\ getStats(chunks', obj').processedChunks
                      = getStats(chunks, obj).processedChunks + 1
                 /\ notified'[Len(notified')].stats.processedChunks
                      = getStats(chunks', obj').processedChunks ]_vars

\* the Oracle call of a chunk of the store threw
C7_Witness ==
  /\ last.op = "complete"
  /\ last.outcome.settled = "rejected"
  /\ InStore(lastCompleted)
  /\ getStats(chunks, obj).processedChunks = 2

\* C8: with no credential no correction and no probe goes to the network;
\* every correctTranscript call resolves with the fallback and the probe
\* resolves false.
C8_NoNetworkWithoutKey ==
  apiKey = NoKey =>
    /\ last.fetches = 0
    /\ \A i \in 1..Len(inflight) : ~inflight[i].fetched
    /\ probe # "fetching"
    /\ available \in {"unknown", "false"}
    /\ last.op = "complete" =>
         last.outcome =
           Fulfilled([correctedText |-> last.text, confidence |-> Zero,
                      changes |-> <<>>])

\* without a credential a probe has resolved false and a correction settled
C8_Witness ==
  /\ apiKey = NoKey
  /\ available = "false"
  /\ last.op = "complete"

\* C9: addChunk with non-empty trimmed text appends one pending chunk and
\* issues its request at once iff isFinal or the trimmed text is longer than
\* 10 characters; no addChunk issues a request for an earlier chunk, so a
\* short interim chunk stays pending.
C9_AddChunkTrigger ==
  [][ (last'.op = "addChunk" /\ isEnabled /\ Truthy(trim(last'.text))) =>
        LET id == Len(obj) + 1
            text == trim(last'.text)
            triggers == last'.isFinal \/ Len(text) > SignificantLength
        IN  /\ chunks' = Append(chunks, id)
            /\ Len(obj') = id
            /\ obj'[id].text = text
            /\ obj'[id].isFinal = last'.isFinal
            /\ obj'[id].corrected = Undefined
            /\ obj'[id].isProcessing = triggers
            /\ issued'[id] = (IF triggers THEN 1 ELSE 0)
            /\ Len(inflight') = Len(inflight) + (IF triggers THEN 1 ELSE 0)
            /\ triggers => inflight'[Len(inflight')].chunk = id
            /\ \A old \in 1..Len(obj) :
                 obj'[old] = obj[old] /\ issued'[old] = issued[old] ]_vars

\* an interim chunk of 10 characters is still pending after a later addChunk
C9_Witness ==
  /\ last.op = "addChunk"
  /\ Len(chunks) = 2
  /\ ~obj[chunks[1]].isFinal
  /\ Len(obj[chunks[1]].text) = SignificantLength
  /\ issued[chunks[1]] = 0
  /\ ~obj[chunks[1]].isProcessing /\ obj[chunks[1]].corrected = Undefined
  /\ obj[chunks[2]].isProcessing

\* C10: addChunk of a text whose trimmed form is empty changes nothing: not
\* the chunks, the statistics or the transcripts; no request is issued and
\* no notification is scheduled or delivered.
C10_EmptyTextIgnored ==
  [][ (last'.op = "addChunk" /\ ~Truthy(trim(last'.text))) =>
        /\ UNCHANGED << chunks, obj, inflight, issued, debounceTimer, staleTimers >>
        /\ getStats(chunks', obj') = getStats(chunks, obj)
        /\ getProcessedTranscript(chunks', obj')
             = getProcessedTranscript(chunks, obj)
        /\ getRawTranscript(chunks', obj') = getRawTranscript(chunks, obj)
        /\ last'.fetches = 0
        /\ notified' = <<>> ]_vars

\* a blank final text was offered to a store that holds a chunk, with no
\* timer pending
C10_Witness ==
  /\ last.op = "addChunk"
  /\ last.text = <<" ", " ">> /\ last.isFinal
  /\ Len(chunks) >= 1
  /\ debounceTimer = "fired"

\* cs is the sequence bs followed by chunks made in this step
Appends(bs, cs, made) ==
  /\ Len(cs) >= Len(bs)
  /\ SubSeq(cs, 1, Len(bs)) = bs
  /\ \A i \in (Len(bs) + 1)..Len(cs) : cs[i] > made

\* C11: a correction starting, completing or failing never adds, removes or
\* reorders chunks and never changes a chunk's identity, text or isFinal; the
\* chunk sequence grows only by addChunk appending at its end (also inside
\* processBatch) and shrinks only by clear() emptying it; the raw transcript
\* is the space-joined texts in insertion order and no correction event
\* changes it.
C11_CorrectionsLeaveChunks ==
  [][ /\ Len(obj') >= Len(obj)
      /\ \A id \in 1..Len(obj) :
            obj'[id].text = obj[id].text /\ obj'[id].isFinal = obj[id].isFinal
      /\ \/ chunks' = chunks /\ Len(obj') = Len(obj)
         \/ /\ last'.op \in {"addChunk", "processBatch"}
            /\ Appends(chunks, chunks', Len(obj))
         \/ last'.op = "clear" /\ chunks' = <<>> /\ Len(obj') = Len(obj)
      /\ last'.op = "complete" =>
            /\ chunks' = chunks
            /\ getRawTranscript(chunks', obj') = getRawTranscript(chunks, obj)
      /\ getRawTranscript(chunks', obj') = join(TextsOf(Records(chunks', obj')))
    ]_vars

\* the second of two chunks got a corrected text that differs from its raw
\* text
C11_Witness ==
  /\ last.op = "complete"
  /\ last.response = Rewritten
  /\ Len(chunks) = 2
  /\ lastCompleted = chunks[2]
  /\ obj[lastCompleted].corrected # obj[lastCompleted].text
  /\ Raw = join(<<obj[chunks[1]].text, obj[chunks[2]].text>>)

InFlight(id) == \E i \in 1..Len(inflight) : inflight[i].chunk = id

\* C12 (as claimed): in every reachable state a chunk's isProcessing is true
\* if and only if a correction request for that chunk is in flight, also
\* when reprocessAll is called while requests are in flight.
C12_ProcessingIffInFlight ==
  \A id \in 1..Len(obj) : InStore(id) => (obj[id].isProcessing <=> InFlight(id))

\* C13: while the assembler is disabled, addChunk and processBatch leave the
\* chunk sequence unchanged, issue no Oracle request and schedule and deliver
\* no notification; nothing is queued: setEnabled changes neither the store
\* nor the requests nor the timer, so what was offered while disabled is not
\* in the store after setEnabled(true).
C13_DisabledDrops ==
  [][ /\ (~isEnabled /\ last'.op \in {"addChunk", "processBatch"}) =>
            /\ UNCHANGED << chunks, obj, inflight, issued, debounceTimer,
                            staleTimers, coalesced, batchWaiting >>
            /\ last'.fetches = 0
            /\ notified' = <<>>
      /\ last'.op = "setEnabled" =>
            /\ UNCHANGED << chunks, obj, inflight, issued, debounceTimer,
                            staleTimers, coalesced, batchWaiting >>
            /\ notified' = <<>> ]_vars

\* a final text of 11 characters was offered to the disabled assembler, whose
\* store holds one settled chunk
C13_Witness ==
  /\ last.op = "addChunk"
  /\ ~isEnabled
  /\ last.text = ElevenChars /\ last.isFinal
  /\ Len(chunks) = 1 /\ Len(obj) = 1
  /\ inflight = <<>>
  /\ debounceTimer = "fired"

\* C14 (as claimed): no subscriber runs inside addChunk, clear or
\* reprocessAll; subscribers are called only from the debounce timer.
C14_OnlyFromTimer == calls # <<>> => last.op = "timer"

\* whether addChunk(text, isFinal) starts a correction
StartsCorrection(text, isFinal) ==
  /\ isEnabled
  /\ Truthy(trim(text))
  /\ isFinal \/ Len(trim(text)) > SignificantLength

\* C14 (amended): an addChunk that starts no correction calls no subscriber
\* before it returns; an addChunk that starts one notifies once before it
\* returns, clear() notifies twice, reprocessAll() notifies once when the
\* store is not empty; a notification calls every subscriber; what addChunk
\* schedules for itself is delivered by the debounce timer alone, as one
\* notification.
C14_SynchronousNotifications ==
  [][ /\ last'.op = "addChunk" =>
            /\ Len(notified') =
                 (IF StartsCorrection(last'.text, last'.isFinal) THEN 1 ELSE 0)
            /\ (isEnabled /\ Truthy(trim(last'.text))) =>
                 debounceTimer' = "pending"
      /\ last'.op = "clear" => Len(notified') = 2
      /\ last'.op = "reprocessAll" =>
            Len(notified') = (IF Len(chunks) > 0 THEN 1 ELSE 0)
      /\ last'.op = "timer" =>
            Len(notified') = 1 /\ debounceTimer' = "fired"
      /\ Len(calls') = Len(notified') * Len(updateCallbacks) ]_vars

\* with a subscriber and a chunk in processing, a short interim text was
\* added: no subscriber was called, and the timer is set
C14_Witness ==
  /\ last.op = "addChunk"
  /\ ~last.isFinal /\ Len(trim(last.text)) = SignificantLength
  /\ Len(updateCallbacks) = 2
  /\ Len(chunks) = 2 /\ obj[chunks[1]].isProcessing
  /\ calls = <<>>
  /\ debounceTimer = "pending"

\* C16: on every notification each subscribed callback is called once, in
\* the order of subscription, with the one state snapshot of that
\* notification; a callback that throws keeps no later callback from being
\* called, and no exception leaves the notifying operation.
C16_EverySubscriberCalled ==
  [][ LET count == Len(updateCallbacks)
      IN  /\ ~failed'
          /\ Len(calls') = Len(notified') * count
          /\ \A n \in 1..Len(notified'), i \in 1..count :
                calls'[(n - 1) * count + i] =
                  [ callback |-> updateCallbacks[i], notification |-> n,
                    state |-> notified'[n] ] ]_vars

\* a correction completed with a throwing subscriber registered before
\* another one: both were called
C16_Witness ==
  /\ last.op = "complete"
  /\ updateCallbacks = <<"faulty", "render">>
  /\ Len(calls) = 2
  /\ calls[1].callback = "faulty" /\ calls[2].callback = "render"
  /\ calls[1].state = calls[2].state
  /\ ~failed

\* C15: at most one debounce timer is scheduled at any time; every addChunk
\* with non-empty text cancels the scheduled timer and sets a new one, so k
\* calls with no firing in between are answered by one firing of the timer
\* set by the last of them, which delivers exactly one notification; the
\* state already holds each chunk when its addChunk returns.
C15_OneTimerOneNotification ==
  [][ /\ staleTimers' = 0
      /\ (last'.op = "addChunk" /\ isEnabled /\ Truthy(trim(last'.text))) =>
            /\ debounceTimer' = "pending"
            /\ coalesced' = (IF debounceTimer = "pending" THEN coalesced + 1 ELSE 1)
            /\ getState(chunks', obj').stats.totalChunks = Len(chunks) + 1
            /\ getState(chunks', obj').rawTranscript =
                 join(Append(TextsOf(Records(chunks, obj)), trim(last'.text)))
      /\ last'.op = "timer" =>
            /\ debounceTimer = "pending" /\ debounceTimer' = "fired"
            /\ coalesced' = coalesced /\ coalesced >= 1
            /\ notified' = <<getState(chunks, obj)>> ]_vars

\* two addChunk calls with no firing in between were answered by one firing
C15_Witness ==
  /\ last.op = "timer"
  /\ coalesced = 2
  /\ debounceTimer = "fired" /\ staleTimers = 0
  /\ Len(notified) = 1
  /\ notified[1].stats.totalChunks = 2

\* C17: for one buffer at most one flush is executing at any time, and the
\* guard is set exactly while one is; a submit made while a flush is in
\* flight returns false, starts no flush, calls no pattern action and makes
\* no network request.
C17_OneFlushAtATime ==
  [][ /\ Len(flushes') <= 1
      /\ isProcessingStream' <=> flushes' # <<>>
      /\ (vlast'.op = "submit" /\ flushes # <<>>) =>
            /\ vlast'.result = "false"
            /\ vlast'.action = "none"
            /\ vlast'.fetches = 0
            /\ flushes' = flushes ]_vars

\* "Bold" was submitted with a selection, and triggered a flush, while the
\* streaming request of an earlier flush was out
C17_Witness ==
  /\ vlast.op = "submit"
  /\ vlast.triggered
  /\ vlast.chunk.text = BoldText /\ vlast.editor.hasSelection
  /\ vlast.result = "false"
  /\ Len(flushes) = 1 /\ flushes[1].stage = "streaming"

\* a is the end of b
IsSuffix(a, b) ==
  Len(a) <= Len(b) /\ SubSeq(b, Len(b) - Len(a) + 1, Len(b)) = a

\* a flush that was in flight has finished in this step
FlushFinishes ==
  /\ vlast'.op \in {"continue", "streamEnd"}
  /\ Len(flushes') < Len(flushes)

\* C18 (as claimed): the text submitted while a flush is in flight is still
\* in the buffer, at its end, when that flush has finished, whatever its
\* outcome.
C18_LateTextKept ==
  [][ FlushFinishes => IsSuffix(late, streamBuffer') ]_vars

\* the lower-cased text contains a phrase of the table
ContainsPhrase(text) ==
  \E c \in 1..Len(commands) :
    \E k \in 1..Len(commands[c].patterns) :
      includes(toLowerCase(text), commands[c].patterns[k])

\* C19 (as claimed): on a flush a pattern action is applied iff the document
\* has a selection and the lower-cased buffer contains a phrase; when it is
\* applied the submit returns true and no network call is made; with no
\* selection no action is applied and the flush goes to the streaming
\* request if a credential is configured, and else returns false.
C19_PatternIffSelection ==
  [][ /\ (vlast'.op = "submit" /\ Len(flushes') > Len(flushes)) =>
            ( vlast'.action # "none"
                <=> (vlast'.editor.hasSelection /\ ContainsPhrase(streamBuffer')) )
      /\ (vlast'.op = "continue" /\ Len(flushes) = 1) =>
            /\ flushes[1].action # "none" =>
                  vlast'.result = "true" /\ vlast'.fetches = 0
            /\ ~flushes[1].editor.hasSelection =>
                  /\ flushes[1].action = "none"
                  /\ IF grokApiKey # Null
                     THEN /\ vlast'.fetches = 1
                          /\ flushes'[1].stage = "streaming"
                     ELSE vlast'.result = "false" /\ vlast'.fetches = 0 ]_vars

\* C19 (amended): on a flush a pattern action is called iff the document has
\* a selection and the lower-cased buffer contains a phrase; when the action
\* returns the submit returns true and no network call is made; when it
\* throws, or none was called, the flush goes to the streaming request if a
\* credential is configured, and else returns false.
C19_PatternUnlessThrows ==
  [][ /\ (vlast'.op = "submit" /\ Len(flushes') > Len(flushes)) =>
            LET f == flushes'[Len(flushes')]
            IN  /\ vlast'.action # "none"
                     <=> ( vlast'.editor.hasSelection
                             /\ ContainsPhrase(streamBuffer') )
                /\ f.patternResult
                     <=> (vlast'.action # "none" /\ ~vlast'.editor.throws)
      /\ (vlast'.op = "continue" /\ Len(flushes) = 1) =>
            IF flushes[1].patternResult
            THEN vlast'.result = "true" /\ vlast'.fetches = 0
            ELSE IF grokApiKey # Null
                 THEN /\ vlast'.fetches = 1
                      /\ vlast'.result = "pending"
                      /\ flushes'[1].stage = "streaming"
                 ELSE vlast'.result = "false" /\ vlast'.fetches = 0 ]_vars

\* with a credential configured, a flush whose pattern action was called
\* has returned true without a network request
C19_Witness ==
  /\ vlast.op = "continue"
  /\ vlast.result = "true"
  /\ vlast.fetches = 0
  /\ grokApiKey # Null
  /\ flushes = <<>> /\ ~isProcessingStream

\* a flush has finished in this step having acted
FlushSucceeds == FlushFinishes /\ vlast'.result = "true"

WordsIn(s) ==
  Cardinality({ i \in 1..Len(s) :
                  ~IsSpace(s[i]) /\ (i = 1 \/ IsSpace(s[i - 1])) })

\* s holds one of the command keywords, whatever the case of its letters
HoldsKeyword(s) ==
  LET lower == toLowerCase(s)
      letters == Chars(lower)
  IN  \E k \in 1..Len(commandKeywords) :
        /\ commandKeywords[k][1] \in letters
        /\ includes(lower, commandKeywords[k])

\* the last character of s that is not white space is '.', '!' or '?'
EndsSentence(s) ==
  \E i \in 1..Len(s) :
    /\ s[i] \in {".", "!", "?"}
    /\ \A j \in (i + 1)..Len(s) : IsSpace(s[j])

\* C21: submit appends the fragment text (and a space) to the buffer and the
\* fragment to the queue, and then attempts a flush iff the buffer has at
\* least 2 words and holds a command keyword, or has at least 3 words, or the
\* fragment ends in '.', '!' or '?', or its confidence is greater than 0.7;
\* when none holds it returns false and only the buffer and the queue have
\* changed.
C21_FlushTrigger ==
  [][ vlast'.op = "submit" =>
        LET chunk == vlast'.chunk
            buffer == streamBuffer \o chunk.text \o <<" ">>
            trigger ==
              \/ EndsSentence(chunk.text)
              \/ 7 * chunk.confidence.den < 10 * chunk.confidence.num
              \/ WordsIn(buffer) >= 3
              \/ WordsIn(buffer) >= 2 /\ HoldsKeyword(buffer)
        IN  /\ streamBuffer' = buffer
            /\ processingQueue' = Append(processingQueue, chunk)
            /\ vlast'.triggered <=> trigger
            /\ ~trigger =>
                  /\ vlast'.result = "false"
                  /\ vlast'.action = "none"
                  /\ vlast'.fetches = 0
                  /\ isProcessingStream' = isProcessingStream
                  /\ flushes' = flushes ]_vars

\* a flush was attempted for two words with a keyword alone: the fragment has
\* no final punctuation and confidence 0.7
C21_Witness ==
  /\ vlast.op = "submit"
  /\ vlast.triggered
  /\ WordsIn(streamBuffer) = 2
  /\ ~EndsSentence(vlast.chunk.text)
  /\ vlast.chunk.confidence = HighConfidence

\* the positions of s where a word starts
WordStarts(s) ==
  { i \in 1..Len(s) : ~IsSpace(s[i]) /\ (i = 1 \/ IsSpace(s[i - 1])) }

\* the word of s that starts at position i, in lower case
WordAt(s, i) ==
  LET end == CHOOSE j \in i..Len(s) :
               /\ \A k \in i..j : ~IsSpace(s[k])
               /\ (j = Len(s) \/ IsSpace(s[j + 1]))
  IN  [k \in 1..(end - i + 1) |-> LowerChar(s[i + k - 1])]

\* the last call of correctTranscript got a response it could read, so its
\* result was built by calculateConfidence and detectChanges
Heuristic ==
  /\ correction.outcome.settled = "fulfilled"
  /\ FetchesWithKey(apiKey)
  /\ correction.response.net = "answered"
  /\ correction.response.ok
  /\ correction.response.parses

\* C22: the confidence is exactly 1 when the corrected text is the original;
\* otherwise it is max(0.3, shared / longer), shared counting the words of
\* the original that occur, whatever their case, among the words of the
\* corrected text and longer being the larger of the two numbers of words;
\* it then lies in [0.3, 1].
C22_ConfidenceHeuristic ==
  Heuristic =>
    LET original == correction.text
        corrected == correction.outcome.value.correctedText
        confidence == correction.outcome.value.confidence
        shared ==
          Cardinality({ i \in WordStarts(original) :
                          \E j \in WordStarts(corrected) :
                            WordAt(original, i) = WordAt(corrected, j) })
        longer == Max(Cardinality(WordStarts(original)),
                      Cardinality(WordStarts(corrected)))
    IN  IF original = corrected
        THEN confidence.num = 1 /\ confidence.den = 1
        ELSE /\ IF 10 * shared >= 3 * longer
                THEN confidence.num * longer = shared * confidence.den
                ELSE confidence.num * 10 = 3 * confidence.den
             /\ 3 * confidence.den <= 10 * confidence.num
             /\ confidence.num <= confidence.den

\* two of the three words of the original are in a corrected text of two
\* words: the confidence is 2/3
C22_Witness ==
  /\ Heuristic
  /\ Cardinality(WordStarts(correction.text)) = 3
  /\ Cardinality(WordStarts(correction.outcome.value.correctedText)) = 2
  /\ correction.outcome.value.confidence = Frac(2, 3)

\* a and b are the same but for the case of their letters
SameButCase(a, b) ==
  Len(a) = Len(b) /\ \A i \in 1..Len(a) : LowerChar(a[i]) = LowerChar(b[i])

\* C23 (as claimed): when the corrected text differs from the original in any
\* way the change list is the one entry of kind 'correction' that pairs the
\* two full texts; when they are identical it is empty.
C23_AnyDifferenceListed ==
  Heuristic =>
    LET original == correction.text
        corrected == correction.outcome.value.correctedText
        changes == correction.outcome.value.changes
    IN  IF original = corrected THEN changes = <<>>
        ELSE changes = << [original |-> original, corrected |-> corrected,
                           type |-> "correction"] >>

\* C23 (amended): when the corrected text differs from the original by more
\* than the case of its letters the change list is the one entry of kind
\* 'correction' that pairs the two full texts; when they are identical or
\* differ in case only it is empty.
C23_DifferenceBeyondCaseListed ==
  Heuristic =>
    LET original == correction.text
        corrected == correction.outcome.value.correctedText
        changes == correction.outcome.value.changes
    IN  IF SameButCase(original, corrected) THEN changes = <<>>
        ELSE changes = << [original |-> original, corrected |-> corrected,
                           type |-> "correction"] >>

\* the corrected text differs from the original in case only and the change
\* list is empty
C23_Witness ==
  /\ Heuristic
  /\ correction.text # correction.outcome.value.correctedText
  /\ SameButCase(correction.text, correction.outcome.value.correctedText)
  /\ correction.outcome.value.changes = <<>>

\* C24 (as claimed): the completion of a request whose chunk clear() removed
\* from the store while it was in flight writes no corrected, confidence or
\* isProcessing value to the chunk record.
C24_StaleCompletionDiscarded ==
  [][ (last'.op = "complete" /\ ~InStore(lastCompleted')) =>
        /\ obj'[lastCompleted'].corrected = obj[lastCompleted'].corrected
        /\ obj'[lastCompleted'].confidence = obj[lastCompleted'].confidence
        /\ obj'[lastCompleted'].isProcessing = obj[lastCompleted'].isProcessing
    ]_vars

\* the text the chunk at position k stands for: its corrected text when it
\* has one, its raw text otherwise
KnownText(cs, o, k) ==
  IF o[cs[k]].corrected # Undefined /\ o[cs[k]].corrected # <<>>
  THEN o[cs[k]].corrected
  ELSE o[cs[k]].text

\* the known texts of positions 1..n, in that order, with a space between
RECURSIVE SpaceJoined(_, _, _)
SpaceJoined(cs, o, n) ==
  IF n = 0 THEN <<>>
  ELSE IF n = 1 THEN KnownText(cs, o, 1)
  ELSE SpaceJoined(cs, o, n - 1) \o <<" ">> \o KnownText(cs, o, n)

\* C25: the context of the request issued for the chunk at position i is the
\* space-joined text of all the chunks before it, in insertion order, the
\* corrected text of a chunk that has one and else its raw text; for the
\* first chunk the context is empty.
C25_ContextIsEveryPriorChunk ==
  [][ Len(inflight') = Len(inflight) + 1 =>
        LET request == inflight'[Len(inflight')]
            i == findIndex(chunks', request.chunk)
        IN  /\ i # 0
            /\ IF i = 1 THEN request.context = <<>>
               ELSE request.context = << SpaceJoined(chunks', obj', i - 1) >>
    ]_vars

\* the request of a fifth chunk went out with the correction of the first
\* chunk at the head of its context
C25_Witness ==
  /\ last.op = "addChunk"
  /\ Len(chunks) = 5
  /\ inflight # <<>>
  /\ LET request == inflight[Len(inflight)]
     IN  /\ request.chunk = chunks[5]
         /\ obj[chunks[1]].text = ShortText
         /\ obj[chunks[1]].corrected = trim(Rewritten.content)
         /\ Len(request.context) = 1
         /\ SubSeq(request.context[1], 1, 11) = trim(Rewritten.content)

\* C26: when a correction completes, the requests still in flight are the
\* ones that were, each with the context it was issued with, and no request
\* is issued: the context of a request is fixed when it is issued.
C26_ContextFixedAtIssue ==
  [][ last'.op = "complete" =>
        /\ \E i \in 1..Len(inflight) : inflight' = RemoveAt(inflight, i)
        /\ issued' = issued ]_vars

\* the correction of the first chunk has completed and rewritten it, and the
\* request of the second chunk is still in flight with the raw text of the
\* first as its context
C26_Witness ==
  /\ last.op = "complete"
  /\ Len(chunks) >= 2
  /\ lastCompleted = chunks[1]
  /\ obj[chunks[1]].corrected # obj[chunks[1]].text
  /\ \E i \in 1..Len(inflight) :
       /\ inflight[i].chunk = chunks[2]
       /\ inflight[i].context = << obj[chunks[1]].text >>
  /\ issued[chunks[2]] = 1

\* the requests in flight that reprocessAll issued and awaits
ReprocessRequests(reqs) ==
  { i \in 1..Len(reqs) : reqs[i].waiter = "reprocess" }

\* C27 (as claimed): reprocessAll first clears corrected, confidence and
\* isProcessing of every chunk and then issues its requests one at a time in
\* insertion order, the request for the next position only when the one
\* before it has completed; when it resolves every chunk in the store has
\* corrected text and none is processing.
C27_ReprocessSequential ==
  [][ /\ last'.op = "reprocessAll" =>
            \A k \in 1..Len(chunks') :
              /\ obj'[chunks'[k]].corrected = Undefined
              /\ obj'[chunks'[k]].confidence = UndefinedNumber
              /\ obj'[chunks'[k]].isProcessing <=> k = 1
      /\ last'.op \in {"reprocessAll", "reprocessNext"} =>
            /\ ReprocessRequests(inflight) = {}
            /\ Cardinality(ReprocessRequests(inflight')) <= 1
            /\ reproc'.i = reproc.i + 1
            /\ \A i \in ReprocessRequests(inflight') :
                 inflight'[i].chunk = chunks'[reproc'.i]
      /\ last'.op = "reprocessDone" =>
            \A k \in 1..Len(chunks') :
              /\ Truthy(obj'[chunks'[k]].corrected)
              /\ ~obj'[chunks'[k]].isProcessing ]_vars

\* C28 (as claimed): processBatch(texts) appends every non-empty text of the
\* batch as a chunk, in order; when its promise resolves each of those
\* chunks has corrected text and none of them is processing, and that is
\* what the notification the manager then sends shows.
C28_BatchResolvesCorrected ==
  [][ /\ (last'.op = "processBatch" /\ batchWaiting') =>
            LET made == SelectSeq(batchChunkIds', LAMBDA id : id # 0)
            IN  /\ chunks' = chunks \o made
                /\ \E texts \in Batches :
                     LET kept == SelectSeq(texts, LAMBDA t : trim(t) # <<>>)
                     IN  /\ Len(kept) = Len(made)
                         /\ \A k \in 1..Len(made) :
                              obj'[made[k]].text = trim(kept[k])
      /\ last'.op = "batchDone" =>
            /\ \A k \in 1..Len(batchChunkIds) :
                 batchChunkIds[k] # 0 =>
                   /\ Truthy(obj'[batchChunkIds[k]].corrected)
                   /\ ~obj'[batchChunkIds[k]].isProcessing
            /\ (\A k \in 1..Len(batchChunkIds) : batchChunkIds[k] = 0 \/ InStore(batchChunkIds[k]))
                 => /\ Len(notified') = 1
                    /\ notified'[1].stats.processingChunks = 0 ]_vars

\* a method of the assembler is called in this step
OperationCalled ==
  last'.op \in {"addChunk", "clear", "setEnabled", "reprocessAll"}

\* no chunk is processing, and every chunk of the store for which a
\* correction was triggered has corrected text and a confidence in [0, 1]
Settled ==
  /\ ~getState(chunks, obj).isProcessing
  /\ getState(chunks, obj).stats.processingChunks = 0
  /\ \A k \in 1..Len(chunks) :
       issued[chunks[k]] > 0 =>
         /\ Truthy(obj[chunks[k]].corrected)
         /\ obj[chunks[k]].confidence # UndefinedNumber
         /\ FracLeq(Zero, obj[chunks[k]].confidence)
         /\ FracLeq(obj[chunks[k]].confidence, One)

\* C29: if every request issued returns or fails in the end and from some
\* point on no operation is called, then from some point on no chunk is
\* processing and every chunk for which a correction was triggered has
\* corrected text and a confidence in [0, 1].
C29_EventuallySettled ==
  <>[][~OperationCalled]_vars => <>[]Settled

\* two corrections were triggered and both have completed
C29_Witness ==
  /\ Settled
  /\ Len(chunks) = 2
  /\ issued[chunks[1]] > 0 /\ issued[chunks[2]] > 0
  /\ inflight = <<>>
  /\ last.op = "complete"

\* C30: whenever a flush finishes, by a pattern action that returned or threw
\* or by a streaming request that succeeded or failed, the guard is false
\* again and the submit returns true or false; a later submit that triggers a
\* flush on a buffer that is not blank then starts one.
C30_GuardReleased ==
  [][ /\ FlushFinishes =>
            /\ ~isProcessingStream'
            /\ flushes' = <<>>
            /\ vlast'.result \in {"true", "false"}
      /\ (vlast'.op = "submit" /\ vlast'.triggered /\ flushes = <<>>
            /\ trim(streamBuffer') # <<>>) =>
            /\ isProcessingStream'
            /\ Len(flushes') = 1
            /\ vlast'.result = "pending" ]_vars

\* a flush has finished on a streaming request that failed, and the guard is
\* released
C30_Witness ==
  /\ vlast.op = "streamEnd"
  /\ vlast.result = "false"
  /\ ~isProcessingStream
  /\ flushes = <<>>
  /\ submits < MaxSubmits

=============================================================================
